---- MODULE Spec2Model ----
(***************************************************************************)
(* Indicator engine and multi-timeframe strategy scorer of the finance     *)
(* monitor: price store -> get_price_history -> calculate_all_indicators   *)
(* -> get_indicator_signals -> the four timeframe scorers ->               *)
(* _calculate_overall_score / _calculate_confidence.                       *)
(*                                                                         *)
(* Numbers are exact rationals with the float specials the code relies on  *)
(* (NaN, +/-inf, None); float rounding itself is not modelled.             *)
(***************************************************************************)
EXTENDS Integers, Sequences, FiniteSets, TLC

VARIABLES
    store,       \* rows of price_history for the symbol, in timestamp order
    db_ok,       \* the store answers queries (FALSE: the read raises)
    market_open, \* what is_euronext_open() answers now
    call,        \* arguments and environment of the last analyze_asset call
                 \* (repeat: the call before it had the same asset type)
    analysis,    \* the dict the last analyze_asset call returned
    batch        \* the locals of run_analysis_mode (<<>>: no batch is running)

vars == <<store, db_ok, market_open, call, analysis, batch>>

(***************************************************************************)
(* Bounds of the model.                                                    *)
(***************************************************************************)
\* per-timeframe scores handed to the aggregator range over -MaxScore..MaxScore
MaxScore == 9

\* prices of the store range over 1..MaxPrice
MaxPrice == 2

\* rows that follow the constant run of the store
MaxTail == 1

\* hours between a row of the tail and the row before it (0: the same hour;
\* 2: an hour without a row, which the resampling fills forward)
MaxGap == 2

\* lengths of the constant run: around the indicators' windows (5, 14, 15,
\* 20, 26, 50, 168) and the 30 samples of the constant-price scenario
PrefixLens == {0, 1, 4, 5, 13, 14, 15, 20, 26, 30, 50, 169}

(***************************************************************************)
(* Numbers: [k, n, d] with k = "num" (the rational n/d, d > 0, reduced),   *)
(* "nan", "inf" (n = +1 / -1) or "none" (Python None).                     *)
(***************************************************************************)
Abs(x) == IF x < 0 THEN -x ELSE x

RECURSIVE GCD(_, _)
GCD(a, b) == IF b = 0 THEN a ELSE GCD(b, a % b)

R(n, d) ==
    LET s == IF d < 0 THEN -1 ELSE 1
        g == GCD(Abs(n), Abs(d))
    IN [k |-> "num", n |-> (s * n) \div g, d |-> (s * d) \div g]

Z(i) == [k |-> "num", n |-> i, d |-> 1]

NaN == [k |-> "nan", n |-> 0, d |-> 1]

Inf(s) == [k |-> "inf", n |-> s, d |-> 1]

None == [k |-> "none", n |-> 0, d |-> 1]

IsNum(a) == a.k = "num"

IsNaN(a) == a.k = "nan"

Sgn(a) == IF a.n > 0 THEN 1 ELSE IF a.n < 0 THEN -1 ELSE 0

FNeg(a) == IF a.k \in {"num", "inf"} THEN [a EXCEPT !.n = -a.n] ELSE a

FAdd(a, b) ==
    IF IsNaN(a) \/ IsNaN(b) THEN NaN
    ELSE IF a.k = "inf" /\ b.k = "inf" THEN (IF a.n = b.n THEN a ELSE NaN)
    ELSE IF a.k = "inf" THEN a
    ELSE IF b.k = "inf" THEN b
    ELSE R(a.n * b.d + b.n * a.d, a.d * b.d)

FSub(a, b) == FAdd(a, FNeg(b))

FMul(a, b) ==
    IF IsNaN(a) \/ IsNaN(b) THEN NaN
    ELSE IF a.k = "inf" \/ b.k = "inf"
         THEN (IF Sgn(a) * Sgn(b) = 0 THEN NaN ELSE Inf(Sgn(a) * Sgn(b)))
    ELSE R(a.n * b.n, a.d * b.d)

\* float64 division as numpy does it: x/0 is +/-inf, 0/0 is NaN, no exception
FDiv(a, b) ==
    IF IsNaN(a) \/ IsNaN(b) THEN NaN
    ELSE IF a.k = "inf" THEN (IF b.k = "inf" THEN NaN
                              ELSE Inf(a.n * (IF b.n < 0 THEN -1 ELSE 1)))
    ELSE IF b.k = "inf" THEN Z(0)
    ELSE IF b.n = 0 THEN (IF a.n = 0 THEN NaN ELSE Inf(Sgn(a)))
    ELSE R(a.n * b.d, a.d * b.n)

\* a + b * sqrt(v) for rationals a, b # 0, v > 0: the Bollinger values
Surd(a, b, v) == [k |-> "surd", a |-> a, b |-> b, v |-> v]

MkSurd(a, b, v) ==
    IF IsNaN(a) \/ IsNaN(b) \/ IsNaN(v) THEN NaN
    ELSE IF v.n = 0 \/ b.n = 0 THEN a
    ELSE Surd(a, b, v)

\* the sign of b * sqrt(v) - c for rationals b # 0, v > 0, c
SurdSignBySquares(b, c, d) ==
    IF b.n > 0 THEN (IF c.n <= 0 THEN 1 ELSE d)
    ELSE (IF c.n >= 0 THEN -1 ELSE -d)

SurdSign(b, v, c) ==
    SurdSignBySquares(b, c, Sgn(FSub(FMul(FMul(b, b), v), FMul(c, c))))

\* comparisons: every comparison with NaN is False
FLt(a, b) ==
    IF IsNaN(a) \/ IsNaN(b) THEN FALSE
    ELSE IF a.k = "surd" THEN SurdSign(a.b, a.v, FSub(b, a.a)) < 0
    ELSE IF b.k = "surd" THEN SurdSign(b.b, b.v, FSub(a, b.a)) > 0
    ELSE IF a.k = "inf" THEN a.n < 0 /\ ~(b.k = "inf" /\ b.n < 0)
    ELSE IF b.k = "inf" THEN b.n > 0
    ELSE a.n * b.d < b.n * a.d

FGt(a, b) == FLt(b, a)

FEq(a, b) == ~IsNaN(a) /\ ~IsNaN(b) /\ a = b

FLe(a, b) == FLt(a, b) \/ FEq(a, b)

FGe(a, b) == FLe(b, a)

(***************************************************************************)
(* Unbounded integers (sign s, magnitude m: limbs base 10^4, least         *)
(* significant first, no leading zero limb) and the rationals whose        *)
(* denominators are products of 2, 3, 5, 7, 11, 13: the values an          *)
(* exponential moving average takes (its divisors are span + 1 = 10, 11,   *)
(* 13, 21, 27), kept exact at any series length.                           *)
(***************************************************************************)
Base == 10 ^ 4

BigZero == [s |-> 0, m |-> <<>>]

RECURSIVE MagOf(_)
MagOf(i) == IF i = 0 THEN <<>> ELSE <<i % Base>> \o MagOf(i \div Base)

BigOf(i) == IF i = 0 THEN BigZero
            ELSE [s |-> IF i < 0 THEN -1 ELSE 1, m |-> MagOf(Abs(i))]

Limb(a, i) == IF i <= Len(a) THEN a[i] ELSE 0

RECURSIVE MagAdd(_, _, _, _)
MagAdd(a, b, i, carry) ==
    IF i > Len(a) /\ i > Len(b)
    THEN (IF carry = 0 THEN <<>> ELSE <<carry>>)
    ELSE LET t == Limb(a, i) + Limb(b, i) + carry
         IN <<t % Base>> \o MagAdd(a, b, i + 1, t \div Base)

RECURSIVE Trim(_)
Trim(a) == IF a # <<>> /\ a[Len(a)] = 0 THEN Trim(SubSeq(a, 1, Len(a) - 1)) ELSE a

\* a - b for magnitudes with a >= b
RECURSIVE MagSubLoop(_, _, _, _)
MagSubLoop(a, b, i, borrow) ==
    IF i > Len(a) THEN <<>>
    ELSE LET t == a[i] - Limb(b, i) - borrow
         IN <<IF t < 0 THEN t + Base ELSE t>>
                \o MagSubLoop(a, b, i + 1, IF t < 0 THEN 1 ELSE 0)

MagSub(a, b) == Trim(MagSubLoop(a, b, 1, 0))

RECURSIVE MagCmpFrom(_, _, _)
MagCmpFrom(a, b, i) ==
    IF i = 0 THEN 0
    ELSE IF a[i] # b[i] THEN (IF a[i] < b[i] THEN -1 ELSE 1)
    ELSE MagCmpFrom(a, b, i - 1)

MagCmp(a, b) ==
    IF Len(a) # Len(b) THEN (IF Len(a) < Len(b) THEN -1 ELSE 1)
    ELSE MagCmpFrom(a, b, Len(a))

RECURSIVE MagMulSmall(_, _, _, _)
MagMulSmall(a, k, i, carry) ==
    IF i > Len(a) THEN MagOf(carry)
    ELSE LET t == a[i] * k + carry
         IN <<t % Base>> \o MagMulSmall(a, k, i + 1, t \div Base)

BigNeg(x) == [x EXCEPT !.s = -x.s]

BigAdd(x, y) ==
    IF x.s = 0 THEN y
    ELSE IF y.s = 0 THEN x
    ELSE IF x.s = y.s THEN [s |-> x.s, m |-> MagAdd(x.m, y.m, 1, 0)]
    ELSE LET c == MagCmp(x.m, y.m)
         IN IF c = 0 THEN BigZero
            ELSE IF c > 0 THEN [s |-> x.s, m |-> MagSub(x.m, y.m)]
            ELSE [s |-> y.s, m |-> MagSub(y.m, x.m)]

BigSub(x, y) == BigAdd(x, BigNeg(y))

\* x * k for an integer |k| < 10^5
BigMulSmall(x, k) ==
    IF x.s = 0 \/ k = 0 THEN BigZero
    ELSE [s |-> IF k < 0 THEN -x.s ELSE x.s, m |-> MagMulSmall(x.m, Abs(k), 1, 0)]

\* -1, 0, 1 as x <, =, > y
BigCmp(x, y) == BigSub(x, y).s

Primes == <<2, 3, 5, 7, 11, 13>>

NoExp == <<0, 0, 0, 0, 0, 0>>

\* the exponent vector of a divisor span + 1
Factors(q) ==
    CASE q = 10 -> <<1, 0, 1, 0, 0, 0>>
      [] q = 11 -> <<0, 0, 0, 0, 1, 0>>
      [] q = 13 -> <<0, 0, 0, 0, 0, 1>>
      [] q = 21 -> <<0, 1, 0, 1, 0, 0>>
      [] q = 27 -> <<0, 3, 0, 0, 0, 0>>

\* the value n / (2^e[1] * 3^e[2] * ... * 13^e[6])
SR(n, e) == [n |-> n, e |-> e]

SInt(i) == SR(BigOf(i), NoExp)

RECURSIVE MulPow(_, _, _)
MulPow(n, p, k) ==
    IF k = 0 \/ n.s = 0 THEN n ELSE MulPow(BigMulSmall(n, p), p, k - 1)

RECURSIVE ScaleFrom(_, _, _, _)
ScaleFrom(n, from, to, i) ==
    IF i > Len(Primes) THEN n
    ELSE ScaleFrom(MulPow(n, Primes[i], to[i] - from[i]), from, to, i + 1)

MaxExp(e, f) == [i \in 1..Len(Primes) |-> IF e[i] > f[i] THEN e[i] ELSE f[i]]

\* the numerator of x over the denominator with exponents e (e >= x.e)
Scaled(x, e) == IF x.e = e THEN x.n ELSE ScaleFrom(x.n, x.e, e, 1)

SAdd(x, y) ==
    LET e == MaxExp(x.e, y.e) IN SR(BigAdd(Scaled(x, e), Scaled(y, e)), e)

SSub(x, y) ==
    LET e == MaxExp(x.e, y.e) IN SR(BigSub(Scaled(x, e), Scaled(y, e)), e)

SCmp(x, y) ==
    LET e == MaxExp(x.e, y.e) IN BigCmp(Scaled(x, e), Scaled(y, e))

SMulInt(x, k) == SR(BigMulSmall(x.n, k), x.e)

SDiv(x, q) == SR(x.n, [i \in 1..Len(Primes) |-> x.e[i] + Factors(q)[i]])

(***************************************************************************)
(* analysis/indicators.py.  prices is the 'price' column of the resampled  *)
(* frame, a sequence of integers; an operator with a last argument t gives *)
(* the value at index t (1-based) of the pandas Series the method returns, *)
(* and .iloc[-1] is t = Len(prices).                                       *)
(***************************************************************************)
RECURSIVE SumRange(_, _, _)
SumRange(xs, i, j) ==
    IF i > j THEN 0
    ELSE IF i = j THEN xs[i]
    ELSE SumRange(xs, i, (i + j) \div 2) + SumRange(xs, (i + j) \div 2 + 1, j)

RECURSIVE MinRange(_, _, _)
MinRange(xs, i, j) ==
    IF i = j THEN xs[j]
    ELSE LET m == MinRange(xs, i, j - 1) IN IF xs[j] < m THEN xs[j] ELSE m

RECURSIVE MaxRange(_, _, _)
MaxRange(xs, i, j) ==
    IF i = j THEN xs[j]
    ELSE LET m == MaxRange(xs, i, j - 1) IN IF xs[j] > m THEN xs[j] ELSE m

FMax(a, b) == IF FLt(a, b) THEN b ELSE a

FAbs(a) == IF a.k = "num" /\ a.n < 0 THEN FNeg(a) ELSE a

\* prices.rolling(window=period).mean(): NaN until period samples are there
CalculateSma(prices, period, t) ==
    IF t < period THEN NaN
    ELSE R(SumRange(prices, t - period + 1, t), period)

\* Series.ewm(span=period, adjust=False).mean(): y[1] = x[1], then
\* y[t] = (2 x[t] + (period - 1) y[t-1]) / (period + 1); pandas leaves y
\* untouched when y[t-1] = x[t], so a constant series stays exact
EwmStep(weighted, cur, period) ==
    IF SCmp(weighted, cur) = 0 THEN weighted
    ELSE SDiv(SAdd(SMulInt(cur, 2), SMulInt(weighted, period - 1)), period + 1)

\* the values y[i..j] given weighted = y[i-1]; the loop over the samples is
\* run by halves
RECURSIVE EwmRange(_, _, _, _, _)
EwmRange(xs, period, i, j, weighted) ==
    IF i = j THEN <<EwmStep(weighted, xs[i], period)>>
    ELSE LET left == EwmRange(xs, period, i, (i + j) \div 2, weighted)
         IN left \o EwmRange(xs, period, (i + j) \div 2 + 1, j, left[Len(left)])

CalculateEma(xs, period) ==
    IF Len(xs) <= 1 THEN xs
    ELSE <<xs[1]>> \o EwmRange(xs, period, 2, Len(xs), xs[1])

AsSeries(prices) == [i \in 1..Len(prices) |-> SInt(prices[i])]

\* the element-wise difference of two Series of one length
SeriesSub(xs, ys) == [i \in 1..Len(xs) |-> SSub(xs[i], ys[i])]

\* the dict calculate_macd returns, from its macd_line and signal_line
MacdDict(macd_line, signal_line) ==
    [macd |-> macd_line,
     signal |-> signal_line,
     histogram |-> SeriesSub(macd_line, signal_line)]

\* signal_line = self.calculate_ema(macd_line, signal)
MacdOfLine(macd_line) == MacdDict(macd_line, CalculateEma(macd_line, 9))

CalculateMacd(prices) ==
    MacdOfLine(SeriesSub(CalculateEma(AsSeries(prices), 12),
                         CalculateEma(AsSeries(prices), 26)))

\* delta.where(delta > 0, 0) and -delta.where(delta < 0, 0); delta[1] is NaN
Gains(prices) ==
    [t \in 1..Len(prices) |->
        IF t > 1 /\ prices[t] > prices[t - 1] THEN prices[t] - prices[t - 1] ELSE 0]

Losses(prices) ==
    [t \in 1..Len(prices) |->
        IF t > 1 /\ prices[t] < prices[t - 1] THEN prices[t - 1] - prices[t] ELSE 0]

\* calculate_rsi returns an empty Series below period + 1 samples
RsiEmpty(prices, period) == Len(prices) < period + 1

\* a zero average loss left unresolved
CalculateRsiUnresolved(prices, period, t) ==
    IF t < period THEN NaN
    ELSE LET avg_gains == R(SumRange(Gains(prices), t - period + 1, t), period)
             avg_losses == R(SumRange(Losses(prices), t - period + 1, t), period)
         IN IF avg_losses = Z(0) THEN NaN
            ELSE FSub(Z(100), FDiv(Z(100), FAdd(Z(1), FDiv(avg_gains, avg_losses))))

CalculateRsi(prices, period, t) ==
    IF t < period THEN NaN
    ELSE LET avg_gains == R(SumRange(Gains(prices), t - period + 1, t), period)
             avg_losses == R(SumRange(Losses(prices), t - period + 1, t), period)
             rs == FDiv(avg_gains, avg_losses)
         IN FSub(Z(100), FDiv(Z(100), FAdd(Z(1), rs)))

\* prices.rolling(window=period).std() squared (ddof = 1)
RollingVar(prices, period, t) ==
    IF t < period THEN NaN
    ELSE LET sum == SumRange(prices, t - period + 1, t)
             sq == SumRange([i \in 1..Len(prices) |-> prices[i] * prices[i]],
                            t - period + 1, t)
         IN R(period * sq - sum * sum, period * (period - 1))

CalculateBollingerBands(prices, period, std_dev, t) ==
    LET middle_band == CalculateSma(prices, period, t)
        var == RollingVar(prices, period, t)
    IN [upper |-> MkSurd(middle_band, Z(std_dev), var),
        middle |-> middle_band,
        lower |-> MkSurd(middle_band, Z(-std_dev), var)]

\* (current_price - lower) / (upper - lower); with lower = m - b s and
\* upper = m + b s this is 1/2 + (current_price - m) / (2 b s)
BandPosition(current_price, lower, upper) ==
    IF IsNaN(lower) \/ IsNaN(upper) THEN NaN
    ELSE IF lower.k = "num"
         THEN FDiv(FSub(current_price, lower), FSub(upper, lower))
    ELSE MkSurd(R(1, 2),
                FDiv(FSub(current_price, upper.a),
                     FMul(FMul(Z(2), upper.b), upper.v)),
                upper.v)

\* high = prices * 1.01 and low = prices * 0.99 (simulated)
SimHighFlat(price) == R(price, 1)

SimHigh(price) == R(101 * price, 100)

SimLow(price) == R(99 * price, 100)

\* simulated constant volume
Volume == 100000

StochK(prices, k_period, t) ==
    IF t < k_period THEN NaN
    ELSE LET lowest_low == SimLow(MinRange(prices, t - k_period + 1, t))
             highest_high == SimHigh(MaxRange(prices, t - k_period + 1, t))
         IN FMul(Z(100), FDiv(FSub(Z(prices[t]), lowest_low),
                              FSub(highest_high, lowest_low)))

RECURSIVE FSumRange(_, _, _, _, _)
FSumRange(F(_, _), prices, i, j, acc) ==
    IF i > j THEN acc ELSE FSumRange(F, prices, i + 1, j, FAdd(acc, F(prices, i)))

StochK14(prices, t) == StochK(prices, 14, t)

\* the mean of a window: its value where the window is constant, and else
\* the window itself under the tag "mean" (the common denominator of its
\* values is beyond the integers; nothing reads the mean but its presence)
MeanOf(window) ==
    IF \A i \in DOMAIN window : window[i] = window[1] THEN window[1]
    ELSE [k |-> "mean", of |-> window]

\* k_percent.rolling(window=d_period).mean(): NaN while a %K in the window is NaN
StochD(prices, k_period, d_period, t) ==
    IF t - d_period + 1 < k_period THEN NaN
    ELSE MeanOf([i \in 1..d_period |-> StochK14(prices, t - d_period + i)])

\* max over the three columns, NaN skipped: the first row has no previous close
TrueRange(prices, t) ==
    LET high_low == FSub(SimHigh(prices[t]), SimLow(prices[t]))
    IN IF t = 1 THEN high_low
       ELSE FMax(high_low,
                 FMax(FAbs(FSub(SimHigh(prices[t]), Z(prices[t - 1]))),
                      FAbs(FSub(SimLow(prices[t]), Z(prices[t - 1])))))

CalculateAtr(prices, period, t) ==
    IF t < period THEN NaN
    ELSE FDiv(FSumRange(TrueRange, prices, t - period + 1, t, Z(0)), Z(period))

\* an unchanged price counted as a fall
PriceDirectionFlat(prices) ==
    [t \in 1..Len(prices) |->
        IF t = 1 THEN 0
        ELSE IF prices[t] > prices[t - 1] THEN 1 ELSE -1]

\* np.sign(prices.diff()); the first row is NaN, here 0 and never summed
PriceDirection(prices) ==
    [t \in 1..Len(prices) |->
        IF t = 1 THEN 0
        ELSE IF prices[t] > prices[t - 1] THEN 1
        ELSE IF prices[t] < prices[t - 1] THEN -1 ELSE 0]

\* volumes * price_direction
SignedVolume(volumes, price_direction) ==
    [t \in 1..Len(volumes) |-> volumes[t] * price_direction[t]]

\* signed_volume.cumsum(): NaN in the first row, where prices.diff() is NaN,
\* and the running sum of the rows after it
CalculateObv(prices, volumes, t) ==
    IF t = 1 THEN NaN
    ELSE Z(SumRange(SignedVolume(volumes, PriceDirection(prices)), 2, t))

\* pd.Series(100000, index=prices.index)
Volumes(n) == [t \in 1..n |-> Volume]

(***************************************************************************)
(* The price store and get_price_history.  A row of price_history for the  *)
(* symbol is [t, p]: t the hour bucket of its timestamp (t < 0: a row the   *)
(* query's WHERE clause does not select), p its price; rows are in         *)
(* timestamp order.                                                        *)
(***************************************************************************)
\* df.resample('1H').last().ffill(): one value per bucket from the first row's
\* bucket to the last row's; a bucket takes the price of the last row at or
\* before it (the last row of the bucket, else the fill from the bucket before).
\* Row i so gives the values of the buckets from its own up to the one before
\* the next row's: none if the next row shares its bucket
FilledBy(df, i) ==
    IF i = Len(df) THEN <<df[i].p>>
    ELSE IF df[i + 1].t = df[i].t THEN <<>>
    ELSE [b \in 1..(df[i + 1].t - df[i].t) |-> df[i].p]

RECURSIVE ResampleRange(_, _, _)
ResampleRange(df, i, j) ==
    IF i = j THEN FilledBy(df, i)
    ELSE ResampleRange(df, i, (i + j) \div 2) \o ResampleRange(df, (i + j) \div 2 + 1, j)

Resample(df) == ResampleRange(df, 1, Len(df))

InWindow(r) == r.t >= 0

GetPriceHistory(rows, healthy) ==
    IF ~healthy THEN <<>>
    ELSE LET df == SelectSeq(rows, InWindow)
         IN IF df = <<>> THEN <<>> ELSE Resample(df)

(***************************************************************************)
(* calculate_all_indicators: the dict it returns, as a function from the   *)
(* keys it set to their values.                                            *)
(***************************************************************************)
Truthy(x) == ~(x.k = "none") /\ ~(x.k = "num" /\ x.n = 0)

PercentChange(prices, back) ==
    LET n == Len(prices)
    IN FMul(FDiv(FSub(Z(prices[n]), Z(prices[n - back + 1])), Z(prices[n - back + 1])),
            Z(100))

\* Moyennes mobiles
Averages(prices, n) ==
    [sma_10 |-> CalculateSma(prices, 10, n),
     sma_20 |-> CalculateSma(prices, 20, n),
     sma_50 |-> IF n >= 50 THEN CalculateSma(prices, 50, n) ELSE None,
     ema_10 |-> CalculateEma(AsSeries(prices), 10)[n],
     ema_20 |-> CalculateEma(AsSeries(prices), 20)[n]]

\* RSI: the keys are set only if the Series is not empty
RsiKeys(rsi) ==
    [rsi |-> rsi,
     rsi_oversold |-> FLt(rsi, Z(30)),
     rsi_overbought |-> FGt(rsi, Z(70))]

RsiPart(prices, n) ==
    IF RsiEmpty(prices, 14) THEN <<>> ELSE RsiKeys(CalculateRsi(prices, 14, n))

\* Bandes de Bollinger
BbKeys(bb, current_price) ==
    [bb_upper |-> bb.upper, bb_middle |-> bb.middle, bb_lower |-> bb.lower,
     bb_position |-> BandPosition(current_price, bb.lower, bb.upper)]

BbPart(prices, n) == BbKeys(CalculateBollingerBands(prices, 20, 2, n), Z(prices[n]))

\* MACD
MacdKeys(macd, n) ==
    [macd |-> macd.macd[n],
     macd_signal |-> macd.signal[n],
     macd_histogram |-> macd.histogram[n],
     macd_bullish |-> SCmp(macd.macd[n], macd.signal[n]) > 0]

MacdPart(prices, n) == MacdKeys(CalculateMacd(prices), n)

\* Stochastique
StochKeys(stoch_k, stoch_d) ==
    [stoch_k |-> stoch_k,
     stoch_d |-> stoch_d,
     stoch_oversold |-> FLt(stoch_k, Z(20)),
     stoch_overbought |-> FGt(stoch_k, Z(80))]

StochPart(prices, n) == StochKeys(StochK(prices, 14, n), StochD(prices, 14, 3, n))

\* ATR
AtrKeys(atr, current_price) ==
    [atr |-> atr, atr_pct |-> FMul(FDiv(atr, current_price), Z(100))]

AtrPart(prices, n) == AtrKeys(CalculateAtr(prices, 14, n), Z(prices[n]))

\* OBV: indicators['obv'] is set before obv_values.iloc[-5] is read
ObvPart(prices, n) == [obv |-> CalculateObv(prices, Volumes(n), n)]

\* obv_trend, Prix et variations, Support et resistance
TrendPart(prices, n) ==
    [obv_trend |-> IF FGt(CalculateObv(prices, Volumes(n), n),
                          CalculateObv(prices, Volumes(n), n - 4))
                   THEN "up" ELSE "down",
     price_current |-> Z(prices[n]),
     price_change_24h |-> IF n > 24 THEN PercentChange(prices, 24) ELSE Z(0),
     price_change_7d |-> IF n > 168 THEN PercentChange(prices, 168) ELSE Z(0),
     support |-> Z(MinRange(prices, IF n > 20 THEN n - 19 ELSE 1, n)),
     resistance |-> Z(MaxRange(prices, IF n > 20 THEN n - 19 ELSE 1, n))]

\* obv_values.iloc[-5] raises IndexError below 5 samples: the except clause
\* ends the block there and what was set so far is returned
EndOfBlock(computed, prices, n) ==
    IF n < 5 THEN computed ELSE computed @@ TrendPart(prices, n)

IndicatorsAt(prices, n) ==
    EndOfBlock(Averages(prices, n) @@ RsiPart(prices, n) @@ BbPart(prices, n)
                   @@ MacdPart(prices, n) @@ StochPart(prices, n)
                   @@ AtrPart(prices, n) @@ ObvPart(prices, n),
               prices, n)

IndicatorsOf(prices) == IndicatorsAt(prices, Len(prices))

\* if prices.empty: return {}
IndicatorsIfAny(prices) == IF prices = <<>> THEN <<>> ELSE IndicatorsOf(prices)

CalculateAllIndicatorsGated(rows, healthy) ==
    IF Len(GetPriceHistory(rows, healthy)) < 50 THEN <<>>
    ELSE IndicatorsOf(GetPriceHistory(rows, healthy))

CalculateAllIndicators(rows, healthy) ==
    IndicatorsIfAny(GetPriceHistory(rows, healthy))

Has(dict, keys) == keys \subseteq DOMAIN dict

\* get_indicator_signals
ConsensusMajority(signals) ==
    LET buy_signals == Cardinality({k \in DOMAIN signals : signals[k] = "buy"})
        sell_signals == Cardinality({k \in DOMAIN signals : signals[k] = "sell"})
    IN IF buy_signals > sell_signals THEN "buy"
       ELSE IF sell_signals > buy_signals THEN "sell"
       ELSE "neutral"

Consensus(signals) ==
    LET buy_signals == Cardinality({k \in DOMAIN signals : signals[k] = "buy"})
        sell_signals == Cardinality({k \in DOMAIN signals : signals[k] = "sell"})
    IN IF buy_signals > sell_signals /\ buy_signals >= 2 THEN "buy"
       ELSE IF sell_signals > buy_signals /\ sell_signals >= 2 THEN "sell"
       ELSE "neutral"

\* signals['consensus']
WithConsensus(signals) == signals @@ [consensus |-> Consensus(signals)]

\* Signal Bollinger
BollingerVoteInclusive(bb_position) ==
    IF FLe(bb_position, R(2, 10)) THEN "buy"
    ELSE IF FGe(bb_position, R(8, 10)) THEN "sell"
    ELSE "neutral"

BollingerVote(bb_position) ==
    IF FLt(bb_position, R(2, 10)) THEN "buy"
    ELSE IF FGt(bb_position, R(8, 10)) THEN "sell"
    ELSE "neutral"

GetIndicatorSignals(indicators) ==
    LET rsi_vote ==
            IF "rsi" \in DOMAIN indicators
            THEN [rsi |-> IF indicators.rsi_oversold THEN "buy"
                          ELSE IF indicators.rsi_overbought THEN "sell"
                          ELSE "neutral"]
            ELSE <<>>
        macd_vote ==
            IF "macd_bullish" \in DOMAIN indicators
            THEN [macd |-> IF indicators.macd_bullish THEN "buy" ELSE "sell"]
            ELSE <<>>
        bollinger_vote ==
            IF "bb_position" \in DOMAIN indicators
            THEN [bollinger |-> BollingerVote(indicators.bb_position)]
            ELSE <<>>
        stochastic_vote ==
            IF "stoch_k" \in DOMAIN indicators
            THEN [stochastic |-> IF indicators.stoch_oversold THEN "buy"
                                 ELSE IF indicators.stoch_overbought THEN "sell"
                                 ELSE "neutral"]
            ELSE <<>>
        trend_vote ==
            IF Has(indicators, {"price_current", "sma_20", "sma_50"})
                  /\ Truthy(indicators.sma_50)
            THEN [trend |->
                    IF FGt(indicators.price_current, indicators.sma_20)
                          /\ FGt(indicators.sma_20, indicators.sma_50) THEN "buy"
                    ELSE IF FLt(indicators.price_current, indicators.sma_20)
                          /\ FLt(indicators.sma_20, indicators.sma_50) THEN "sell"
                    ELSE "neutral"]
            ELSE <<>>
    IN WithConsensus(rsi_vote @@ macd_vote @@ bollinger_vote @@ stochastic_vote
                         @@ trend_vote)

(***************************************************************************)
(* Enumerations of analysis/strategy.py.                                   *)
(***************************************************************************)
INTRADAY == "intraday"

SHORT_TERM == "court_terme"

MEDIUM_TERM == "moyen_terme"

LONG_TERM == "long_terme"

\* the members of TimeFrame in the order analyze_asset inserts them
TimeFrame == <<INTRADAY, SHORT_TERM, MEDIUM_TERM, LONG_TERM>>

TimeFrames == {TimeFrame[i] : i \in 1..Len(TimeFrame)}

STRONG_BUY == "achat_fort"

BUY == "achat"

NEUTRAL == "neutre"

SELL == "vente"

STRONG_SELL == "vente_forte"

Signal == {STRONG_BUY, BUY, NEUTRAL, SELL, STRONG_SELL}

VeryHigh == "Tres elevee"

High == "Elevee"

Medium == "Moyenne"

Low == "Faible"

(***************************************************************************)
(* Score -> Signal of the four scorers (the "Determiner le signal" blocks) *)
(***************************************************************************)
Thresholded(score, strong, weak) ==
    IF score >= strong THEN STRONG_BUY
    ELSE IF score >= weak THEN BUY
    ELSE IF score <= -strong THEN STRONG_SELL
    ELSE IF score <= -weak THEN SELL
    ELSE NEUTRAL

IntradaySignalLoose(score) == Thresholded(score, 6, 2)

IntradaySignal(score) == Thresholded(score, 4, 2)

ShortTermSignal(score) == Thresholded(score, 5, 2)

MediumTermSignalLoose(score) == Thresholded(score, 6, 2)

MediumTermSignal(score) == Thresholded(score, 6, 3)

LongTermSignal(score) == Thresholded(score, 4, 2)

ScorerSignal(tf, score) ==
    CASE tf = INTRADAY -> IntradaySignal(score)
      [] tf = SHORT_TERM -> ShortTermSignal(score)
      [] tf = MEDIUM_TERM -> MediumTermSignal(score)
      [] OTHER -> LongTermSignal(score)

(***************************************************************************)
(* The four timeframe scorers.  Each factor check yields the change of the *)
(* score and the factors it appends (the formatted numbers are left out of *)
(* the factor texts); a scorer folds its checks in source order.           *)
(***************************************************************************)
Skip == [ds |-> 0, fs |-> <<>>]

\* a change of the score without its explanation
FactorUnexplained(ds, text) == [ds |-> ds, fs |-> <<>>]

Factor(ds, text) == [ds |-> ds, fs |-> <<text>>]

RECURSIVE ScoreOf(_)
ScoreOf(checks) ==
    IF checks = <<>> THEN 0 ELSE checks[1].ds + ScoreOf(Tail(checks))

RECURSIVE FactorsOf(_)
FactorsOf(checks) ==
    IF checks = <<>> THEN <<>> ELSE checks[1].fs \o FactorsOf(Tail(checks))

\* the dict a scorer returns: signal, score and factors
ScorerResult(tf, checks) ==
    [signal |-> ScorerSignal(tf, ScoreOf(checks)),
     score |-> ScoreOf(checks),
     factors |-> FactorsOf(checks)]

IntradayChecks(indicators) ==
    << IF "rsi" \in DOMAIN indicators
       THEN IF FLt(indicators.rsi, Z(30)) THEN Factor(2, "RSI survendu")
            ELSE IF FGt(indicators.rsi, Z(70)) THEN Factor(-2, "RSI surachete")
            ELSE Skip
       ELSE Skip,
       IF "stoch_k" \in DOMAIN indicators
       THEN IF FLt(indicators.stoch_k, Z(20)) THEN Factor(2, "Stochastique survendu")
            ELSE IF FGt(indicators.stoch_k, Z(80)) THEN Factor(-2, "Stochastique surachete")
            ELSE Skip
       ELSE Skip,
       IF "bb_position" \in DOMAIN indicators
       THEN IF FLt(indicators.bb_position, R(1, 10))
            THEN Factor(2, "Prix pres de la bande inferieure")
            ELSE IF FGt(indicators.bb_position, R(9, 10))
            THEN Factor(-2, "Prix pres de la bande superieure")
            ELSE Skip
       ELSE Skip,
       IF "atr_pct" \in DOMAIN indicators /\ FGt(indicators.atr_pct, Z(3))
       THEN Factor(0, "Forte volatilite")
       ELSE Skip >>

AnalyzeIntraday(indicators, signals) ==
    ScorerResult(INTRADAY, IntradayChecks(indicators))

ShortTermChecks(indicators) ==
    << IF "macd_bullish" \in DOMAIN indicators
       THEN IF indicators.macd_bullish THEN Factor(3, "MACD haussier")
            ELSE Factor(-3, "MACD baissier")
       ELSE Skip,
       IF "rsi" \in DOMAIN indicators
       THEN IF FLe(Z(35), indicators.rsi) /\ FLe(indicators.rsi, Z(65))
            THEN Factor(0, "RSI neutre")
            ELSE IF FLt(indicators.rsi, Z(35)) THEN Factor(1, "RSI bas")
            ELSE IF FGt(indicators.rsi, Z(65)) THEN Factor(-1, "RSI eleve")
            ELSE Skip
       ELSE Skip,
       IF Has(indicators, {"price_current", "sma_10", "sma_20"})
       THEN IF FGt(indicators.sma_10, indicators.sma_20)
            THEN Factor(2, "SMA10 > SMA20 (tendance haussiere)")
            ELSE Factor(-2, "SMA10 < SMA20 (tendance baissiere)")
       ELSE Skip,
       IF "price_change_24h" \in DOMAIN indicators
             /\ FGt(FAbs(indicators.price_change_24h), Z(5))
       THEN IF FGt(indicators.price_change_24h, Z(0))
            THEN Factor(1, "Momentum positif 24h")
            ELSE Factor(-1, "Momentum negatif 24h")
       ELSE Skip >>

AnalyzeShortTerm(indicators, signals) ==
    ScorerResult(SHORT_TERM, ShortTermChecks(indicators))

\* (price - support) / (resistance - support) if resistance > support else 0.5
RangePosition(price, support, resistance) ==
    IF FGt(resistance, support)
    THEN FDiv(FSub(price, support), FSub(resistance, support))
    ELSE R(1, 2)

\* the price against SMA20 alone
AlignmentCheckPriceOnly(price, sma20, sma50) ==
    IF FGt(price, sma20) THEN Factor(2, "Prix > SMA20 > SMA50")
    ELSE IF FLt(price, sma20) THEN Factor(-2, "Prix < SMA20 < SMA50")
    ELSE Skip

\* sma50 = indicators.get('sma_50') or sma20
AlignmentCheck(price, sma20, sma50) ==
    IF FGt(price, sma20) /\ FGt(sma20, sma50) THEN Factor(2, "Prix > SMA20 > SMA50")
    ELSE IF FLt(price, sma20) /\ FLt(sma20, sma50) THEN Factor(-2, "Prix < SMA20 < SMA50")
    ELSE Skip

PositionCheck(position) ==
    IF FLt(position, R(3, 10)) THEN Factor(2, "Prix proche du support")
    ELSE IF FGt(position, R(7, 10)) THEN Factor(-1, "Prix proche de la resistance")
    ELSE Skip

MediumTermChecks(indicators, signals) ==
    << IF "trend" \in DOMAIN signals
       THEN IF signals.trend = "buy" THEN Factor(3, "Tendance haussiere confirmee")
            ELSE IF signals.trend = "sell" THEN Factor(-3, "Tendance baissiere confirmee")
            ELSE Skip
       ELSE Skip,
       IF Has(indicators, {"price_current", "sma_20", "sma_50"})
       THEN AlignmentCheck(indicators.price_current, indicators.sma_20,
                           IF Truthy(indicators.sma_50) THEN indicators.sma_50
                           ELSE indicators.sma_20)
       ELSE Skip,
       IF Has(indicators, {"price_current", "support", "resistance"})
       THEN PositionCheck(RangePosition(indicators.price_current,
                                        indicators.support, indicators.resistance))
       ELSE Skip,
       IF "price_change_7d" \in DOMAIN indicators
       THEN IF FGt(indicators.price_change_7d, Z(10))
            THEN Factor(1, "Performance 7j forte")
            ELSE IF FLt(indicators.price_change_7d, Z(-10))
            THEN Factor(-1, "Performance 7j faible")
            ELSE Skip
       ELSE Skip,
       IF "obv_trend" \in DOMAIN indicators
       THEN IF indicators.obv_trend = "up" THEN Factor(1, "Volume en hausse (OBV)")
            ELSE Factor(-1, "Volume en baisse (OBV)")
       ELSE Skip >>

AnalyzeMediumTerm(indicators, signals) ==
    ScorerResult(MEDIUM_TERM, MediumTermChecks(indicators, signals))

PerformanceCheck(perf_score) ==
    IF FGt(perf_score, Z(5)) THEN Factor(2, "Performance positive soutenue")
    ELSE IF FLt(perf_score, Z(-5)) THEN Factor(-2, "Performance negative persistante")
    ELSE Skip

LongTermChecks(indicators) ==
    << IF "sma_50" \in DOMAIN indicators /\ Truthy(indicators.sma_50)
       THEN IF FGt(indicators.price_current, indicators.sma_50)
            THEN Factor(3, "Prix au-dessus de SMA50")
            ELSE Factor(-3, "Prix en-dessous de SMA50")
       ELSE Skip,
       IF Has(indicators, {"price_change_7d", "price_change_24h"})
       THEN PerformanceCheck(FAdd(FMul(indicators.price_change_7d, R(7, 10)),
                                  FMul(indicators.price_change_24h, R(3, 10))))
       ELSE Skip,
       IF "atr_pct" \in DOMAIN indicators
       THEN IF FLt(indicators.atr_pct, Z(2))
            THEN Factor(0, "Volatilite faible (bon pour long terme)")
            ELSE IF FGt(indicators.atr_pct, Z(5))
            THEN Factor(-1, "Volatilite elevee (risque)")
            ELSE Skip
       ELSE Skip,
       IF "rsi" \in DOMAIN indicators
       THEN IF FLe(Z(40), indicators.rsi) /\ FLe(indicators.rsi, Z(60))
            THEN Factor(1, "RSI equilibre")
            ELSE IF FLt(indicators.rsi, Z(30)) \/ FGt(indicators.rsi, Z(70))
            THEN Factor(0, "RSI extreme (attention)")
            ELSE Skip
       ELSE Skip >>

AnalyzeLongTerm(indicators, signals) ==
    ScorerResult(LONG_TERM, LongTermChecks(indicators))

(***************************************************************************)
(* Aggregator: _calculate_overall_score and _calculate_confidence.         *)
(* recommendations is a function from the present timeframes to            *)
(* [signal, score, factors].                                               *)
(***************************************************************************)
WeightUniform(tf) == R(25, 100)

Weight(tf) ==
    CASE tf = INTRADAY -> R(10, 100)
      [] tf = SHORT_TERM -> R(25, 100)
      [] tf = MEDIUM_TERM -> R(35, 100)
      [] tf = LONG_TERM -> R(30, 100)
      [] OTHER -> R(25, 100)

\* the loop over recommendations.items(): acc = <<weighted_score, total_weight>>
RECURSIVE WeightedLoop(_, _, _)
WeightedLoop(recommendations, i, acc) ==
    IF i > Len(TimeFrame) THEN acc
    ELSE IF TimeFrame[i] \in DOMAIN recommendations
         THEN LET weight == Weight(TimeFrame[i])
              IN WeightedLoop(recommendations, i + 1,
                    <<FAdd(acc[1], FMul(Z(recommendations[TimeFrame[i]].score), weight)),
                      FAdd(acc[2], weight)>>)
         ELSE WeightedLoop(recommendations, i + 1, acc)

\* the thresholds 6 and 5 in place of 3 and 1
OverallSignalCautious(final_score) ==
    IF FGe(final_score, Z(6)) THEN STRONG_BUY
    ELSE IF FGe(final_score, Z(5)) THEN BUY
    ELSE IF FLe(final_score, Z(-6)) THEN STRONG_SELL
    ELSE IF FLe(final_score, Z(-5)) THEN SELL
    ELSE NEUTRAL

OverallSignalStrict(final_score) ==
    IF FGt(final_score, Z(3)) THEN STRONG_BUY
    ELSE IF FGt(final_score, Z(1)) THEN BUY
    ELSE IF FLt(final_score, Z(-3)) THEN STRONG_SELL
    ELSE IF FLt(final_score, Z(-1)) THEN SELL
    ELSE NEUTRAL

OverallSignal(final_score) ==
    IF FGe(final_score, Z(3)) THEN STRONG_BUY
    ELSE IF FGe(final_score, Z(1)) THEN BUY
    ELSE IF FLe(final_score, Z(-3)) THEN STRONG_SELL
    ELSE IF FLe(final_score, Z(-1)) THEN SELL
    ELSE NEUTRAL

SignalsOf(recommendations) ==
    [tf \in DOMAIN recommendations |-> recommendations[tf].signal]

BuySignalsOnlyBuy(signals) ==
    Cardinality({tf \in DOMAIN signals : signals[tf] = BUY})

BuySignals(signals) ==
    Cardinality({tf \in DOMAIN signals : signals[tf] \in {BUY, STRONG_BUY}})

SellSignals(signals) ==
    Cardinality({tf \in DOMAIN signals : signals[tf] \in {SELL, STRONG_SELL}})

\* the elif chain on len(signals) * 0.75 and len(signals) * 0.5, in quarters
ConfidenceLevelHalf(buy_signals, sell_signals, len) ==
    IF buy_signals = len \/ sell_signals = len THEN VeryHigh
    ELSE IF 4 * buy_signals >= 2 * len \/ 4 * sell_signals >= 2 * len THEN High
    ELSE IF 4 * buy_signals >= 2 * len \/ 4 * sell_signals >= 2 * len THEN Medium
    ELSE Low

ConfidenceLevel(buy_signals, sell_signals, len) ==
    IF buy_signals = len \/ sell_signals = len THEN VeryHigh
    ELSE IF 4 * buy_signals >= 3 * len \/ 4 * sell_signals >= 3 * len THEN High
    ELSE IF 4 * buy_signals >= 2 * len \/ 4 * sell_signals >= 2 * len THEN Medium
    ELSE Low

ConfidenceOf(signals) ==
    IF DOMAIN signals = {} THEN Low
    ELSE ConfidenceLevel(BuySignals(signals), SellSignals(signals),
                         Cardinality(DOMAIN signals))

CalculateConfidence(recommendations) == ConfidenceOf(SignalsOf(recommendations))

\* final_score = weighted_score / total_weight if total_weight > 0 else 0
FinalScore(weighted_score, total_weight) ==
    IF FGt(total_weight, Z(0)) THEN FDiv(weighted_score, total_weight) ELSE Z(0)

FinalScoreOf(acc) == FinalScore(acc[1], acc[2])

OverallScoreDict(final_score, recommendations) ==
    [score |-> final_score,
     signal |-> OverallSignal(final_score),
     confidence |-> CalculateConfidence(recommendations)]

CalculateOverallScore(recommendations) ==
    OverallScoreDict(FinalScoreOf(WeightedLoop(recommendations, 1, <<Z(0), Z(0)>>)),
                     recommendations)

(***************************************************************************)
(* analyze_asset.  Its result is the dict it returns, as a function from   *)
(* the keys to their values ('timestamp' is left out); <<>> stands for "no *)
(* call has returned yet".                                                 *)
(***************************************************************************)
Symbol == "SYM"

AssetTypes == {"stock", "crypto"}

InsufficientData == "Donnees insuffisantes"

IntradayDueAlways(asset_type, is_market_hours) == TRUE

IntradayDueMarketOnly(asset_type, is_market_hours) == is_market_hours

\* if asset_type == "crypto" or self._is_market_hours()
IntradayDue(asset_type, is_market_hours) ==
    asset_type = "crypto" \/ is_market_hours

\* the recommendations by timeframe, in insertion order
Recommendations(indicators, signals, is_market_hours, asset_type) ==
    (IF IntradayDue(asset_type, is_market_hours)
     THEN INTRADAY :> AnalyzeIntraday(indicators, signals)
     ELSE <<>>)
        @@ SHORT_TERM :> AnalyzeShortTerm(indicators, signals)
        @@ MEDIUM_TERM :> AnalyzeMediumTerm(indicators, signals)
        @@ LONG_TERM :> AnalyzeLongTerm(indicators, signals)

AnalysisDict(indicators, signals, recommendations, asset_type) ==
    [symbol |-> Symbol,
     asset_type |-> asset_type,
     indicators |-> indicators,
     signals |-> signals,
     recommendations |-> recommendations,
     overall_score |-> CalculateOverallScore(recommendations)]

AnalysisWithSignals(indicators, signals, is_market_hours, asset_type) ==
    AnalysisDict(indicators, signals,
                 Recommendations(indicators, signals, is_market_hours, asset_type),
                 asset_type)

\* if not indicators: return the error dict
AnalysisOf(indicators, is_market_hours, asset_type) ==
    IF indicators = <<>>
    THEN [symbol |-> Symbol, error |-> InsufficientData, recommendations |-> <<>>]
    ELSE AnalysisWithSignals(indicators, GetIndicatorSignals(indicators),
                             is_market_hours, asset_type)

\* is_market_hours: what _is_market_hours answers, read from the wall clock
AnalyzeAssetResult(rows, healthy, is_market_hours, asset_type) ==
    AnalysisOf(CalculateAllIndicators(rows, healthy), is_market_hours, asset_type)

(***************************************************************************)
(* Specification of the aggregator alone: any non-empty set of present     *)
(* timeframes, each with a score and the signal its scorer gives it.       *)
(***************************************************************************)
Recommendation(tf, score) ==
    [signal |-> ScorerSignal(tf, score), score |-> score, factors |-> <<>>]

InitAgg ==
    /\ store = <<>>
    /\ db_ok = TRUE
    /\ market_open = FALSE
    /\ call = <<>>
    /\ batch = <<>>
    /\ \E present \in (SUBSET TimeFrames) \ {{}} :
         \E scores \in [present -> -MaxScore..MaxScore] :
            analysis = [recommendations |->
                            [tf \in present |-> Recommendation(tf, scores[tf])]]

\* analysis['overall_score'] = self._calculate_overall_score(analysis['recommendations'])
AggregateStep ==
    /\ "overall_score" \notin DOMAIN analysis
    /\ analysis' = analysis @@
                      [overall_score |-> CalculateOverallScore(analysis.recommendations)]
    /\ UNCHANGED <<store, db_ok, market_open, call, batch>>

NextAgg == AggregateStep

SpecAgg == InitAgg /\ [][NextAgg]_vars

(***************************************************************************)
(* Specification of the pipeline: a price store, the market clock and the  *)
(* health of the store as environment, analyze_asset as the program.       *)
(*                                                                         *)
(* The store starts as a run of PrefixLen hourly rows at one price         *)
(* followed by up to MaxTail rows, each Gap hours after the row before it  *)
(* (0: same hour) at any price; a row before hour 0 is older than the      *)
(* lookback window.                                                        *)
(***************************************************************************)
Prefix(n, c) == [i \in 1..n |-> [t |-> i - 1, p |-> c]]

RECURSIVE WithTail(_, _, _)
WithTail(rows, last, tail) ==
    IF tail = <<>> THEN rows
    ELSE WithTail(Append(rows, [t |-> last + tail[1].gap, p |-> tail[1].p]),
                  last + tail[1].gap, Tail(tail))

TailRows == [gap : 0..MaxGap, p : 1..MaxPrice]

Tails == UNION {[1..k -> TailRows] : k \in 0..MaxTail}

Init ==
    /\ \E n \in PrefixLens, c \in 1..MaxPrice, tail \in Tails :
          /\ n = 0 => c = 1
          /\ store = WithTail(Prefix(n, c), n - 1, tail)
    /\ db_ok = TRUE
    /\ market_open = FALSE
    /\ call = <<>>
    /\ analysis = <<>>
    /\ batch = <<>>

AnalyzeAsset ==
    /\ \E asset_type \in AssetTypes :
          /\ call' = [asset_type |-> asset_type,
                      market_open |-> market_open,
                      read_failed |-> ~db_ok,
                      repeat |-> call # <<>> /\ call.asset_type = asset_type]
          /\ analysis' = AnalyzeAssetResult(store, db_ok, market_open, asset_type)
    /\ UNCHANGED <<store, db_ok, market_open, batch>>

MarketOpens ==
    /\ ~market_open
    /\ market_open' = TRUE
    /\ UNCHANGED <<store, db_ok, call, analysis, batch>>

MarketCloses ==
    /\ market_open
    /\ market_open' = FALSE
    /\ UNCHANGED <<store, db_ok, call, analysis, batch>>

StoreFails ==
    /\ db_ok
    /\ db_ok' = FALSE
    /\ UNCHANGED <<store, market_open, call, analysis, batch>>

StoreRecovers ==
    /\ ~db_ok
    /\ db_ok' = TRUE
    /\ UNCHANGED <<store, market_open, call, analysis, batch>>

Next ==
    \/ AnalyzeAsset
    \/ MarketOpens
    \/ MarketCloses
    \/ StoreFails
    \/ StoreRecovers

Spec == Init /\ [][Next]_vars

(***************************************************************************)
(* generate_strategy_report and _format_asset_analysis.  A report is the   *)
(* record of what its lines show; a raised exception is the record         *)
(* [raised, key].  The texts 'timeframe' and 'recommendation' of a scorer  *)
(* result, which the detail lines print, are always there.                 *)
(***************************************************************************)
KeyError(key) == [raised |-> "KeyError", key |-> key]

Raised(x) == "raised" \in DOMAIN x

\* x.get('overall_score', {}).get('score', 0)
SortKey(a) == IF "overall_score" \in DOMAIN a THEN a.overall_score.score ELSE Z(0)

\* a.get('overall_score', {}).get('signal')
OverallSignalOf(a) ==
    IF "overall_score" \in DOMAIN a THEN a.overall_score.signal ELSE "None"

\* sorted(..., reverse=True) is stable: a goes behind the entries whose key
\* is not below its own
RECURSIVE InsertByScore(_, _)
InsertByScore(sorted, a) ==
    IF sorted = <<>> THEN <<a>>
    ELSE IF FLt(SortKey(sorted[1]), SortKey(a)) THEN <<a>> \o sorted
    ELSE <<sorted[1]>> \o InsertByScore(Tail(sorted), a)

RECURSIVE SortedByScore(_)
SortedByScore(analyses) ==
    IF analyses = <<>> THEN <<>>
    ELSE InsertByScore(SortedByScore(SubSeq(analyses, 1, Len(analyses) - 1)),
                       analyses[Len(analyses)])

\* xs[:k]
Take(xs, k) == SubSeq(xs, 1, IF Len(xs) < k THEN Len(xs) ELSE k)

IsStrongBuy(a) == OverallSignalOf(a) = STRONG_BUY

IsStrongSell(a) == OverallSignalOf(a) = STRONG_SELL

\* the line of the summary for one analysis
SummaryLine(a) ==
    [symbol |-> a.symbol,
     score |-> a.overall_score.score,
     confidence |-> a.overall_score.confidence]

SummaryLines(selected) == [i \in 1..Len(selected) |-> SummaryLine(selected[i])]

\* analysis['symbol'] and analysis['asset_type'] are read without a default
FormatAssetAnalysis(a) ==
    IF "symbol" \notin DOMAIN a THEN KeyError("symbol")
    ELSE IF "asset_type" \notin DOMAIN a THEN KeyError("asset_type")
    ELSE [symbol |-> a.symbol,
          asset_type |-> a.asset_type,
          overall |-> IF "overall_score" \in DOMAIN a THEN a.overall_score ELSE <<>>,
          indicators |-> IF "indicators" \in DOMAIN a
                         THEN DOMAIN a.indicators
                                 \cap {"rsi", "price_change_24h", "price_change_7d"}
                         ELSE {},
          recommendations |-> IF "recommendations" \in DOMAIN a
                              THEN DOMAIN a.recommendations \cap {SHORT_TERM, MEDIUM_TERM, LONG_TERM}
                              ELSE {}]

\* the loop over analyses_sorted[:10]
Details(shown) == [i \in 1..Len(shown) |-> FormatAssetAnalysis(shown[i])]

FirstRaised(details) ==
    details[CHOOSE i \in 1..Len(details) :
                Raised(details[i]) /\ \A j \in 1..(i - 1) : ~Raised(details[j])]

ReportWith(analyses_sorted, details) ==
    IF \E i \in 1..Len(details) : Raised(details[i]) THEN FirstRaised(details)
    ELSE [strong_buys |-> SummaryLines(Take(SelectSeq(analyses_sorted, IsStrongBuy), 5)),
          strong_sells |-> SummaryLines(Take(SelectSeq(analyses_sorted, IsStrongSell), 5)),
          detailed |-> details]

ReportOfSorted(analyses_sorted) ==
    ReportWith(analyses_sorted, Details(Take(analyses_sorted, 10)))

GenerateStrategyReport(analyses) == ReportOfSorted(SortedByScore(analyses))

(***************************************************************************)
(* run_analysis_mode: the batch over the configured symbols.  batch holds  *)
(* its locals: all_symbols, the position of the loop, analyses, the        *)
(* symbols an error was logged for, the report; with them the history      *)
(* price_history of each symbol and calls, the analyze_asset calls made so *)
(* far with their outcome.                                                 *)
(***************************************************************************)
\* symbols configured, stocks and cryptos together
MaxSymbols == 3

SymbolNames == <<"S1", "S2", "S3", "S4", "S5", "S6">>

\* the stocks of CONFIG first, then the cryptos
AllSymbols(stocks, cryptos) ==
    [i \in 1..(stocks + cryptos) |->
        [symbol |-> SymbolNames[i],
         asset_type |-> IF i <= stocks THEN "stock" ELSE "crypto"]]

\* the rows a symbol may have: one older than the lookback window only, or
\* five hourly rows inside it
Histories == {<<[t |-> -1, p |-> 1]>>, Prefix(5, 1)}

\* the report before the loop has ended, and when `if analyses` fails
Pending == [state |-> "pending"]

Skipped == [state |-> "skipped"]

InitBatch ==
    /\ store = <<>>
    /\ db_ok = TRUE
    /\ market_open = FALSE
    /\ call = <<>>
    /\ analysis = <<>>
    /\ \E stocks \in 0..MaxSymbols :
         \E cryptos \in 0..(MaxSymbols - stocks) :
            \E price_history \in [1..(stocks + cryptos) -> Histories] :
               batch = [all_symbols |-> AllSymbols(stocks, cryptos),
                        price_history |-> price_history,
                        next |-> 1,
                        calls |-> <<>>,
                        analyses |-> <<>>,
                        errors |-> <<>>,
                        report |-> Pending]

\* the dict analyze_asset returns for the symbol
AnalyzeAssetFor(symbol, rows, healthy, is_market_hours, asset_type) ==
    [AnalyzeAssetResult(rows, healthy, is_market_hours, asset_type)
        EXCEPT !.symbol = symbol]

OutcomeOf(result) == IF "error" \in DOMAIN result THEN "insufficient" ELSE "analysis"

\* analyses.append(analysis)
OnReturn(b, symbol, result) ==
    [b EXCEPT !.next = @ + 1,
              !.calls = Append(@, [symbol |-> symbol, outcome |-> OutcomeOf(result)]),
              !.analyses = Append(@, result)]

OnExceptionAbort(b, symbol) ==
    [b EXCEPT !.next = Len(b.all_symbols) + 1,
              !.calls = Append(@, [symbol |-> symbol, outcome |-> "raised"]),
              !.errors = Append(@, symbol)]

\* except Exception as e: logger.error(...), and the loop goes on
OnException(b, symbol) ==
    [b EXCEPT !.next = @ + 1,
              !.calls = Append(@, [symbol |-> symbol, outcome |-> "raised"]),
              !.errors = Append(@, symbol)]

\* one iteration of `for symbol, asset_type in all_symbols`; raises: the
\* analyze_asset call ends with an exception
Iterate ==
    /\ batch.report = Pending
    /\ batch.next <= Len(batch.all_symbols)
    /\ \E raises, healthy, is_market_hours \in BOOLEAN :
          batch' = IF raises
                   THEN OnException(batch, batch.all_symbols[batch.next].symbol)
                   ELSE OnReturn(batch, batch.all_symbols[batch.next].symbol,
                                 AnalyzeAssetFor(batch.all_symbols[batch.next].symbol,
                                                 batch.price_history[batch.next],
                                                 healthy, is_market_hours,
                                                 batch.all_symbols[batch.next].asset_type))
    /\ UNCHANGED <<store, db_ok, market_open, call, analysis>>

\* if analyses: report = strategy.generate_strategy_report(analyses)
Report ==
    /\ batch.report = Pending
    /\ batch.next > Len(batch.all_symbols)
    /\ batch' = [batch EXCEPT !.report = IF batch.analyses = <<>> THEN Skipped
                                         ELSE GenerateStrategyReport(batch.analyses)]
    /\ UNCHANGED <<store, db_ok, market_open, call, analysis>>

NextBatch ==
    \/ Iterate
    \/ Report

SpecBatch == InitBatch /\ [][NextBatch]_vars

(***************************************************************************)
(* Claims about the aggregator, checked under SpecAgg.                     *)
(***************************************************************************)
Scored == "overall_score" \in DOMAIN analysis

Present == DOMAIN analysis.recommendations

PctWeight(tf) ==
    CASE tf = INTRADAY -> 10 [] tf = SHORT_TERM -> 25
      [] tf = MEDIUM_TERM -> 35 [] tf = LONG_TERM -> 30

RECURSIVE SumOver(_, _)
SumOver(S, f) ==
    IF S = {} THEN 0
    ELSE LET x == CHOOSE y \in S : TRUE IN f[x] + SumOver(S \ {x}, f)

AllIdentical ==
    \A a, b \in Present :
        analysis.recommendations[a].signal = analysis.recommendations[b].signal

CountIn(family) ==
    Cardinality({tf \in Present : analysis.recommendations[tf].signal \in family})

AllBuyFamily == CountIn({BUY, STRONG_BUY}) = Cardinality(Present)

AllSellFamily == CountIn({SELL, STRONG_SELL}) = Cardinality(Present)

\* share of the present signals in one family is at least q percent
FamilyShare(q) ==
    \/ 100 * CountIn({BUY, STRONG_BUY}) >= q * Cardinality(Present)
    \/ 100 * CountIn({SELL, STRONG_SELL}) >= q * Cardinality(Present)

\* C1: the overall score is sum(w_t * score_t) / sum(w_t) over the present
\* timeframes only, with w = 0.10 / 0.25 / 0.35 / 0.30; a missing timeframe
\* adds nothing to either sum.
C1_WeightedMean ==
    Scored =>
        LET num == SumOver(Present, [tf \in Present |->
                        PctWeight(tf) * analysis.recommendations[tf].score])
            den == SumOver(Present, [tf \in Present |-> PctWeight(tf)])
            s == analysis.overall_score.score
        IN s.k = "num" /\ den > 0 /\ s.n * den = s.d * num

\* C1 witness: intraday missing, short 5 / medium 6 / long 4 gives 4.55 / 0.90
C1_Witness ==
    /\ Scored
    /\ Present = {SHORT_TERM, MEDIUM_TERM, LONG_TERM}
    /\ analysis.recommendations[SHORT_TERM].score = 5
    /\ analysis.recommendations[MEDIUM_TERM].score = 6
    /\ analysis.recommendations[LONG_TERM].score = 4
    /\ analysis.overall_score.score = R(91, 18)

\* C2: the overall signal is decided by the overall score alone: strong_buy iff
\* score >= 3, buy iff 1 <= score < 3, strong_sell iff score <= -3, sell iff
\* -3 < score <= -1, neutral iff -1 < score < 1.
C2_SignalFromScore ==
    Scored =>
        LET s == analysis.overall_score.score
            sig == analysis.overall_score.signal
        IN /\ sig \in Signal
           /\ (sig = STRONG_BUY) <=> (s.n >= 3 * s.d)
           /\ (sig = BUY) <=> (s.n >= s.d /\ s.n < 3 * s.d)
           /\ (sig = STRONG_SELL) <=> (s.n <= -3 * s.d)
           /\ (sig = SELL) <=> (s.n > -3 * s.d /\ s.n <= -s.d)
           /\ (sig = NEUTRAL) <=> (s.n > -s.d /\ s.n < s.d)

\* C2 witness: a score of exactly 3 on a renormalised three-timeframe set
C2_Witness ==
    /\ Scored
    /\ INTRADAY \notin Present
    /\ analysis.overall_score.score = Z(3)
    /\ analysis.overall_score.signal = STRONG_BUY

\* C3 (as claimed): whenever all present per-timeframe signals are identical,
\* unanimous neutral included, the confidence is VeryHigh.
C3_UnanimousIsVeryHigh ==
    (Scored /\ AllIdentical) => analysis.overall_score.confidence = VeryHigh

\* C4 (as claimed): when the signals are not all identical, High iff >= 75% in
\* one family, else Medium iff >= 50%, else Low; VeryHigh only when identical.
C4_AsClaimed ==
    (Scored /\ ~AllIdentical) =>
        LET c == analysis.overall_score.confidence
        IN /\ c # VeryHigh
           /\ (c = High) <=> FamilyShare(75)
           /\ (c = Medium) <=> (~FamilyShare(75) /\ FamilyShare(50))
           /\ (c = Low) <=> ~FamilyShare(50)

\* C4 (amended): when the signals are not all identical, VeryHigh iff they all
\* lie in the buy family or all in the sell family; otherwise High iff >= 75%
\* in one family, else Medium iff >= 50%, else Low.
C4_FamilyConfidence ==
    (Scored /\ ~AllIdentical) =>
        LET c == analysis.overall_score.confidence
            unanimous == AllBuyFamily \/ AllSellFamily
        IN /\ (c = VeryHigh) <=> unanimous
           /\ (c = High) <=> (~unanimous /\ FamilyShare(75))
           /\ (c = Medium) <=> (~FamilyShare(75) /\ FamilyShare(50))
           /\ (c = Low) <=> ~FamilyShare(50)

\* C4 witness: buy and strong_buy mixed, none neutral or sell: VeryHigh
C4_Witness ==
    /\ Scored
    /\ ~AllIdentical
    /\ AllBuyFamily
    /\ analysis.overall_score.confidence = VeryHigh

\* C6: if every present per-timeframe signal is strong_buy, the overall signal
\* is buy or strong_buy and the confidence is VeryHigh (3 or 4 timeframes).
C6_AllStrongBuy ==
    (Scored /\ \A tf \in Present : analysis.recommendations[tf].signal = STRONG_BUY)
        => /\ analysis.overall_score.signal \in {BUY, STRONG_BUY}
           /\ analysis.overall_score.confidence = VeryHigh

\* C6 witness: the three-timeframe case at the strong_buy thresholds 5 / 6 / 4
C6_Witness ==
    /\ Scored
    /\ Present = {SHORT_TERM, MEDIUM_TERM, LONG_TERM}
    /\ \A tf \in Present : analysis.recommendations[tf].signal = STRONG_BUY
    /\ analysis.recommendations[MEDIUM_TERM].score = 6
    /\ analysis.overall_score.signal = STRONG_BUY
    /\ analysis.overall_score.confidence = VeryHigh

(***************************************************************************)
(* Claims about the pipeline, checked under Spec.                          *)
(***************************************************************************)
\* the resampled series a healthy read of the store yields
Series == GetPriceHistory(store, TRUE)

Returned == analysis # <<>>

IsInsufficientData ==
    analysis = [symbol |-> Symbol, error |-> InsufficientData, recommendations |-> <<>>]

Constant30 ==
    /\ Len(Series) = 30
    /\ \A i \in 1..30 : Series[i] = Series[1]

ScoreAt(tf) == analysis.recommendations[tf].score

\* the confidence the three signals short / medium / long give on their own
ThreeWayConfidence ==
    LET buy == CountIn({BUY, STRONG_BUY})
        sell == CountIn({SELL, STRONG_SELL})
    IN IF buy = 3 \/ sell = 3 THEN VeryHigh
       ELSE IF buy >= 2 \/ sell >= 2 THEN Medium
       ELSE Low

\* C5: a result without error holds an INTRADAY entry iff the asset is crypto
\* or the market was open at the call; SHORT_TERM, MEDIUM_TERM and LONG_TERM
\* are always there; with INTRADAY left out, the overall score is the mean of
\* the three others with weights 0.25 / 0.35 / 0.30 and the confidence counts
\* those three signals only.
C5_IntradayGate ==
    (Returned /\ "error" \notin DOMAIN analysis) =>
        /\ Scored
        /\ (INTRADAY \in Present) <=> (call.asset_type = "crypto" \/ call.market_open)
        /\ {SHORT_TERM, MEDIUM_TERM, LONG_TERM} \subseteq Present
        /\ INTRADAY \notin Present =>
              LET s == analysis.overall_score.score
              IN /\ s.k = "num"
                 /\ 90 * s.n = s.d * (25 * ScoreAt(SHORT_TERM) + 35 * ScoreAt(MEDIUM_TERM)
                                        + 30 * ScoreAt(LONG_TERM))
                 /\ analysis.overall_score.confidence = ThreeWayConfidence

\* C5 witness: a stock analysed with the market closed, scores not all zero
C5_Witness ==
    /\ Scored
    /\ call.asset_type = "stock"
    /\ ~call.market_open
    /\ Present = {SHORT_TERM, MEDIUM_TERM, LONG_TERM}
    /\ ScoreAt(SHORT_TERM) > 0
    /\ ScoreAt(MEDIUM_TERM) < 0

\* C7 (as claimed): on a constant series of 30 hourly samples every computed
\* timeframe signal is neutral and the overall confidence is VeryHigh.
C7_ConstantIsNeutral ==
    (Scored /\ Constant30) =>
        /\ \A tf \in Present : analysis.recommendations[tf].signal = NEUTRAL
        /\ analysis.overall_score.confidence = VeryHigh

\* C8 (as claimed): on a constant series of 30 samples atr_pct = 0 and
\* bb_upper = bb_lower = bb_middle = price.
C8_AsClaimed ==
    (Scored /\ Constant30) =>
        /\ analysis.indicators.atr_pct = Z(0)
        /\ analysis.indicators.bb_upper = Z(Series[1])
        /\ analysis.indicators.bb_lower = Z(Series[1])
        /\ analysis.indicators.bb_middle = Z(Series[1])

\* C8 (amended): on a constant series of 30 samples atr_pct = 2, the ATR
\* being the width of the simulated band price * 1.01 - price * 0.99, and
\* bb_upper = bb_lower = bb_middle = price.
C8_ConstantSeriesIndicators ==
    (Scored /\ Constant30) =>
        /\ analysis.indicators.atr = R(2 * Series[1], 100)
        /\ analysis.indicators.atr_pct = Z(2)
        /\ analysis.indicators.bb_upper = Z(Series[1])
        /\ analysis.indicators.bb_lower = Z(Series[1])
        /\ analysis.indicators.bb_middle = Z(Series[1])

\* C8 witness: the constant series at price 2: ATR 0.04, bands at 2
C8_Witness ==
    /\ Scored
    /\ Constant30
    /\ Series[1] = 2
    /\ analysis.indicators.atr = R(4, 100)
    /\ analysis.indicators.atr_pct = Z(2)
    /\ analysis.indicators.bb_upper = Z(2)

EmptyWindowOutcome ==
    AnalyzeAssetResult(<<[t |-> -1, p |-> 1]>>, TRUE, call.market_open, call.asset_type)

\* C10 (as claimed): the outcome of a call whose read failed differs from the
\* outcome for a healthy store without samples in the lookback window.
C10_FailureDistinct ==
    (Returned /\ call.read_failed) => analysis # EmptyWindowOutcome

\* the indicator set of a call that returned a scored analysis
Indicators == analysis.indicators

Defined(key) == key \in DOMAIN Indicators

\* C11 (as claimed): for a series of 1 to 13 samples a result is returned
\* and rsi, stoch_k and atr are absent from its indicator set.
C11_ShortSeriesFieldsAbsent ==
    (Returned /\ ~call.read_failed /\ Len(Series) \in 1..13) =>
        /\ Scored
        /\ ~Defined("rsi")
        /\ ~Defined("stoch_k")
        /\ ~Defined("atr")

\* the minimum sample counts the claim gives for the fields of the indicator set
MinSamples ==
    [sma_10 |-> 10, sma_20 |-> 20, sma_50 |-> 50, ema_10 |-> 10, ema_20 |-> 20,
     rsi |-> 15, bb_upper |-> 20, bb_middle |-> 20, bb_lower |-> 20,
     bb_position |-> 20, macd |-> 26, macd_signal |-> 26, macd_histogram |-> 26,
     stoch_k |-> 14, atr |-> 15, obv |-> 2, price_change_24h |-> 24,
     price_change_7d |-> 168, support |-> 20, resistance |-> 20]

\* C12 (as claimed): a field whose minimum sample count exceeds the length of
\* the series is absent from the indicator set.
C12_BelowMinimumUndefined ==
    (Scored /\ ~call.read_failed) =>
        \A field \in DOMAIN MinSamples :
            Len(Series) < MinSamples[field] => ~Defined(field)

\* a step from the result of one call to the result of the next call for
\* the same asset type, neither read failing
SameCallAgain ==
    /\ call # <<>>
    /\ call'.repeat
    /\ ~call.read_failed
    /\ ~call'.read_failed

SymbolsOf(entries) == [i \in 1..Len(entries) |-> entries[i].symbol]

HasRaised(c) == c.outcome = "raised"

HasReturned(c) == c.outcome # "raised"

LoopEnded == batch.report # Pending

\* C13: analyze_asset is invoked for the symbols of all_symbols one after the
\* other whatever the outcomes before: while symbols are left the next
\* iteration can be taken, and the report is reached only after all of them;
\* analyses holds the results of exactly the calls that returned, in order
\* (the insufficient-data results too), and an error is logged for exactly
\* the symbols whose call raised.
C13_FailuresIsolated ==
    /\ Len(batch.calls) = batch.next - 1
    /\ Len(batch.calls) <= Len(batch.all_symbols)
    /\ SymbolsOf(batch.calls) = SubSeq(SymbolsOf(batch.all_symbols), 1, Len(batch.calls))
    /\ SymbolsOf(batch.analyses) = SymbolsOf(SelectSeq(batch.calls, HasReturned))
    /\ batch.errors = SymbolsOf(SelectSeq(batch.calls, HasRaised))
    /\ LoopEnded => Len(batch.calls) = Len(batch.all_symbols)
    /\ (~LoopEnded /\ Len(batch.calls) < Len(batch.all_symbols)) => ENABLED Iterate

\* C13 witness: the first call raised, the second returned the
\* insufficient-data result, the third an analysis; the loop has ended
C13_Witness ==
    /\ LoopEnded
    /\ Len(batch.calls) = 3
    /\ batch.calls[1].outcome = "raised"
    /\ batch.calls[2].outcome = "insufficient"
    /\ batch.calls[3].outcome = "analysis"
    /\ batch.errors = <<batch.all_symbols[1].symbol>>
    /\ SymbolsOf(batch.analyses)
          = <<batch.all_symbols[2].symbol, batch.all_symbols[3].symbol>>

\* C14 (as claimed): whenever analyses is not empty, generate_strategy_report
\* returns a report.
C14_ReportAlwaysProduced ==
    (LoopEnded /\ batch.analyses # <<>>) => ~Raised(batch.report)

(***************************************************************************)
(* get_indicator_signals as a function of the dict it is given.  The dicts *)
(* are put together by the key builders of calculate_all_indicators, from  *)
(* values on both sides of every threshold and on it.                      *)
(***************************************************************************)
MaxAverage == 3

RsiValues == {Z(29), Z(30), Z(31), Z(69), Z(70), Z(71), NaN}

RsiInputs == {<<>>} \cup {RsiKeys(rsi) : rsi \in RsiValues}

MacdInputs ==
    {<<>>} \cup {MacdKeys(MacdDict(<<SInt(macd)>>, <<SInt(0)>>), 1) : macd \in -1..1}

\* bands 0 .. 10 around the price, or no band yet
BbInputs ==
    {<<>>}
        \cup {BbKeys([upper |-> Z(10), middle |-> Z(5), lower |-> Z(0)], Z(price)) :
                 price \in {1, 2, 3, 7, 8, 9}}
        \cup {BbKeys([upper |-> NaN, middle |-> NaN, lower |-> NaN], Z(5))}

StochValues == {Z(19), Z(20), Z(21), Z(79), Z(80), Z(81), NaN}

StochInputs == {<<>>} \cup {StochKeys(stoch_k, NaN) : stoch_k \in StochValues}

\* price_current is missing below 5 samples, sma_20 is NaN below 20 and
\* sma_50 is None below 50
TrendInputs ==
    {<<>>}
        \cup {[price_current |-> Z(price), sma_20 |-> NaN, sma_50 |-> None] :
                 price \in 1..MaxAverage}
        \cup {[price_current |-> Z(price), sma_20 |-> Z(sma_20), sma_50 |-> sma_50] :
                 price \in 1..MaxAverage, sma_20 \in 1..MaxAverage,
                 sma_50 \in {None} \cup {Z(a) : a \in 1..MaxAverage}}

InitSignals ==
    /\ store = <<>>
    /\ db_ok = TRUE
    /\ market_open = FALSE
    /\ call = <<>>
    /\ batch = <<>>
    /\ \E rsi \in RsiInputs, macd \in MacdInputs, bb \in BbInputs,
          stoch \in StochInputs, trend \in TrendInputs :
          analysis = [indicators |-> rsi @@ macd @@ bb @@ stoch @@ trend]

Interpret ==
    /\ "signals" \notin DOMAIN analysis
    /\ analysis' = analysis @@ [signals |-> GetIndicatorSignals(analysis.indicators)]
    /\ UNCHANGED <<store, db_ok, market_open, call, batch>>

NextSignals == Interpret

SpecSignals == InitSignals /\ [][NextSignals]_vars

Interpreted == "signals" \in DOMAIN analysis

Votes == [k \in DOMAIN analysis.signals \ {"consensus"} |-> analysis.signals[k]]

VotesFor(side) == Cardinality({k \in DOMAIN Votes : Votes[k] = side})

\* C16: the consensus is buy exactly when at least two indicators vote buy
\* and more vote buy than sell, sell exactly when at least two vote sell and
\* more vote sell than buy, and neutral in every other case; the votes
\* counted are those of the indicators, the consensus entry is not among them.
C16_ConsensusRule ==
    Interpreted =>
        /\ analysis.signals.consensus \in {"buy", "sell", "neutral"}
        /\ analysis.signals.consensus = "buy"
              <=> (VotesFor("buy") >= 2 /\ VotesFor("buy") > VotesFor("sell"))
        /\ analysis.signals.consensus = "sell"
              <=> (VotesFor("sell") >= 2 /\ VotesFor("sell") > VotesFor("buy"))

\* a single buy vote against none, where the consensus stays neutral
C16_Witness ==
    /\ Interpreted
    /\ VotesFor("buy") = 1
    /\ VotesFor("sell") = 0
    /\ analysis.signals.consensus = "neutral"

Given == analysis.indicators

Vote(name) == IF name \in DOMAIN analysis.signals THEN analysis.signals[name] ELSE "none"

Table(value, low, high) ==
    IF FLt(value, low) THEN "buy" ELSE IF FGt(value, high) THEN "sell" ELSE "neutral"

TrendTable ==
    IF ~Has(Given, {"price_current", "sma_20", "sma_50"}) THEN "none"
    ELSE IF Given.sma_50 = None THEN "none"
    ELSE IF FGt(Given.price_current, Given.sma_20) /\ FGt(Given.sma_20, Given.sma_50)
         THEN "buy"
    ELSE IF FLt(Given.price_current, Given.sma_20) /\ FLt(Given.sma_20, Given.sma_50)
         THEN "sell"
    ELSE "neutral"

\* C17: every indicator of the dict votes by the table: RSI below 30 buy,
\* above 70 sell; %K below 20 buy, above 80 sell; bb_position below 0.2 buy,
\* above 0.8 sell; the values in between, the thresholds included, neutral;
\* MACD buy when macd > macd_signal and sell otherwise; the trend buy when
\* price > sma_20 > sma_50, sell when price < sma_20 < sma_50, neutral
\* otherwise, and no trend vote without an sma_50; no vote for an indicator
\* that is not in the dict.
C17_VoteTable ==
    Interpreted =>
        /\ Vote("rsi") = IF "rsi" \in DOMAIN Given
                         THEN Table(Given.rsi, Z(30), Z(70)) ELSE "none"
        /\ Vote("stochastic") = IF "stoch_k" \in DOMAIN Given
                                THEN Table(Given.stoch_k, Z(20), Z(80)) ELSE "none"
        /\ Vote("bollinger") = IF "bb_position" \in DOMAIN Given
                               THEN Table(Given.bb_position, R(2, 10), R(8, 10))
                               ELSE "none"
        /\ Vote("macd") = IF "macd" \notin DOMAIN Given THEN "none"
                          ELSE IF SCmp(Given.macd, Given.macd_signal) > 0 THEN "buy"
                          ELSE "sell"
        /\ Vote("trend") = TrendTable

\* every threshold met at once: RSI 70, %K 20, bb_position 0.2, macd equal
\* to its signal, price above sma_20 above sma_50
C17_Witness ==
    /\ Interpreted
    /\ Has(Given, {"rsi", "stoch_k", "bb_position", "macd", "sma_50"})
    /\ Given.rsi = Z(70)
    /\ Given.stoch_k = Z(20)
    /\ Given.bb_position = R(2, 10)
    /\ SCmp(Given.macd, Given.macd_signal) = 0
    /\ Given.sma_50 = Z(1) /\ Given.sma_20 = Z(2) /\ Given.price_current = Z(3)
    /\ Vote("rsi") = "neutral" /\ Vote("stochastic") = "neutral"
    /\ Vote("bollinger") = "neutral" /\ Vote("macd") = "sell" /\ Vote("trend") = "buy"

(***************************************************************************)
(* The indicators as functions of the series.  Three families of series:   *)
(* step series (one price, then another), monotone series of varying       *)
(* increments, and every short series together with every volume series.   *)
(***************************************************************************)
MaxIncrement == 2

MaxLen == 4

MaxVolume == 2

\* first price before_step times, then the second
StepSeries(n, before_step, first, second) ==
    [i \in 1..n |-> IF i <= before_step THEN first ELSE second]

\* around both guards of the price changes: len(prices) > 24, > 168
StepLens == {25, 26, 169, 170}

\* the step around the sample 24 before the last, and at the last
StepsOf(n) == {n - 25, n - 24, n - 23, n - 1} \cap 1..(n - 1)

\* increments up and then alternately: strictly increasing
Rising(n, first, up, then) ==
    [i \in 1..n |-> first + ((i - 1) \div 2) * (up + then) + ((i - 1) % 2) * up]

Falling(n, first, up, then) ==
    [i \in 1..n |-> Rising(n, first, up, then)[n + 1 - i]]

MonotoneLens == {16, 17, 20}

StrictlyIncreasing(prices) == \A i \in 1..(Len(prices) - 1) : prices[i] < prices[i + 1]

StrictlyDecreasing(prices) == \A i \in 1..(Len(prices) - 1) : prices[i] > prices[i + 1]

InitSeries ==
    /\ store = <<>>
    /\ db_ok = TRUE
    /\ market_open = FALSE
    /\ call = <<>>
    /\ batch = <<>>
    /\ \/ \E n \in StepLens, first \in 1..MaxPrice, second \in 1..MaxPrice :
            \E before_step \in StepsOf(n) :
                analysis = [prices |-> StepSeries(n, before_step, first, second)]
       \/ \E n \in MonotoneLens, first \in 1..MaxPrice,
             up \in 1..MaxIncrement, then \in 1..MaxIncrement :
             \/ analysis = [prices |-> Rising(n, first, up, then)]
             \/ analysis = [prices |-> Falling(n, first, up, then)]
       \/ \E n \in 1..MaxLen :
             \E prices \in [1..n -> 1..MaxPrice], volumes \in [1..n -> 0..MaxVolume] :
                 analysis = [prices |-> prices, volumes |-> volumes]

\* calculate_all_indicators on the series get_price_history returned
Calculate ==
    /\ DOMAIN analysis = {"prices"}
    /\ analysis' = analysis @@ [indicators |-> IndicatorsIfAny(analysis.prices)]
    /\ UNCHANGED <<store, db_ok, market_open, call, batch>>

\* calculate_obv on a series and its volumes
Obv ==
    /\ DOMAIN analysis = {"prices", "volumes"}
    /\ analysis' = analysis @@
          [obv |-> [t \in 1..Len(analysis.prices) |->
                       CalculateObv(analysis.prices, analysis.volumes, t)]]
    /\ UNCHANGED <<store, db_ok, market_open, call, batch>>

NextSeries ==
    \/ Calculate
    \/ Obv

SpecSeries == InitSeries /\ [][NextSeries]_vars

Calculated == "indicators" \in DOMAIN analysis

\* C18: the latest RSI(14) of a strictly increasing series of more than 15
\* samples is exactly 100, that of a strictly decreasing one exactly 0.
C18_MonotoneRsi ==
    (Calculated /\ Len(analysis.prices) > 15) =>
        /\ StrictlyIncreasing(analysis.prices)
              => (Defined("rsi") /\ Indicators.rsi = Z(100))
        /\ StrictlyDecreasing(analysis.prices)
              => (Defined("rsi") /\ Indicators.rsi = Z(0))

\* a rising series of unequal increments with its RSI computed
C18_Witness ==
    /\ Calculated
    /\ Len(analysis.prices) = 17
    /\ StrictlyIncreasing(analysis.prices)
    /\ analysis.prices[2] - analysis.prices[1] # analysis.prices[3] - analysis.prices[2]
    /\ Indicators.rsi = Z(100)

\* a falling series with its RSI computed
C18_WitnessFalling ==
    /\ Calculated
    /\ Len(analysis.prices) = 17
    /\ StrictlyDecreasing(analysis.prices)
    /\ Indicators.rsi = Z(0)

Summed == "obv" \in DOMAIN analysis

\* C19 as claimed: over every step where the price does not fall the OBV
\* does not fall, and over every step where the price is unchanged the OBV
\* is unchanged, the step from the first sample included.
C19_AsClaimed ==
    Summed =>
        \A k \in 1..(Len(analysis.prices) - 1) :
            /\ analysis.prices[k + 1] >= analysis.prices[k]
                  => FGe(analysis.obv[k + 1], analysis.obv[k])
            /\ analysis.prices[k + 1] = analysis.prices[k]
                  => analysis.obv[k + 1] = analysis.obv[k]

\* C19: the OBV of the first sample is NaN; from the second sample on, over
\* every step where the price does not fall the OBV does not fall, and over
\* every step where the price is unchanged the OBV is unchanged.
C19_ObvFollowsPrice ==
    Summed =>
        /\ IsNaN(analysis.obv[1])
        /\ \A k \in 2..(Len(analysis.prices) - 1) :
              /\ analysis.prices[k + 1] >= analysis.prices[k]
                    => FGe(analysis.obv[k + 1], analysis.obv[k])
              /\ analysis.prices[k + 1] = analysis.prices[k]
                    => analysis.obv[k + 1] = analysis.obv[k]

\* a fall, then an unchanged price and a rise with volume
C19_Witness ==
    /\ Summed
    /\ Len(analysis.prices) = 4
    /\ analysis.prices[2] < analysis.prices[1]
    /\ analysis.prices[3] = analysis.prices[2]
    /\ analysis.prices[4] > analysis.prices[3]
    /\ \A t \in 1..4 : analysis.volumes[t] > 0
    /\ analysis.obv[3] = analysis.obv[2]
    /\ FGt(analysis.obv[4], analysis.obv[3])

Last == Len(analysis.prices)

ChangeSince(back) ==
    R(100 * (analysis.prices[Last] - analysis.prices[Last - back]),
      analysis.prices[Last - back])

\* C20: with more than 24 (168) samples price_change_24h (price_change_7d)
\* is the percent change of the latest sample against the sample 24 (168)
\* steps before it; support and resistance are the minimum and the maximum
\* of the trailing 20 samples.
C20_ChangeAgainstSampleBack ==
    Calculated =>
        /\ Last > 24 => Indicators.price_change_24h = ChangeSince(24)
        /\ Last > 168 => Indicators.price_change_7d = ChangeSince(168)
        /\ Last >= 20 =>
              /\ Indicators.support = Z(MinRange(analysis.prices, Last - 19, Last))
              /\ Indicators.resistance = Z(MaxRange(analysis.prices, Last - 19, Last))

(***************************************************************************)
(* The four scorers and the aggregator as functions of the indicator dict. *)
(* A family of dicts for each scorer, with the values it reads on both     *)
(* sides of its thresholds and on them, and a family across the scorers.   *)
(***************************************************************************)
RsiChoices ==
    {<<>>} \cup {RsiKeys(rsi) : rsi \in {NaN} \cup
                                    {Z(v) : v \in {29, 30, 35, 40, 60, 65, 70, 71}}}

StochChoices == {<<>>} \cup {StochKeys(Z(k), NaN) : k \in {19, 20, 80, 81}}

\* bb_position 0.05, 0.1, 0.9, 0.95
BbChoices == {<<>>} \cup {[bb_position |-> R(b, 20)] : b \in {1, 2, 18, 19}}

AtrChoices == {<<>>} \cup {[atr_pct |-> Z(a)] : a \in 1..6}

MacdChoices == {<<>>} \cup {[macd_bullish |-> b] : b \in BOOLEAN}

Averages10 == {NaN} \cup {Z(a) : a \in 1..MaxAverage}

Averages50 == {None} \cup {Z(a) : a \in 1..MaxAverage}

Changes24h == {[price_change_24h |-> Z(c)] : c \in {-6, -5, 0, 5, 6}}

Changes7d == {[price_change_7d |-> Z(c)] : c \in {-11, -10, -5, 0, 5, 10, 11}}

\* support and resistance 10 apart with the price a tenths up the range, or equal
RangeAround(price, a) ==
    IF a = 0 THEN [support |-> Z(price), resistance |-> Z(price)]
    ELSE [support |-> Z(price - a), resistance |-> Z(price + 10 - a)]

IntradayInputs ==
    {rsi @@ stoch @@ bb @@ atr :
        rsi \in RsiChoices, stoch \in StochChoices, bb \in BbChoices, atr \in AtrChoices}

ShortTermInputs ==
    {macd @@ rsi @@ [price_current |-> Z(2), sma_10 |-> sma_10, sma_20 |-> sma_20]
          @@ change :
        macd \in MacdChoices, rsi \in RsiChoices, sma_10 \in Averages10,
        sma_20 \in Averages10, change \in Changes24h}

MediumTermInputs ==
    {[price_current |-> Z(price), sma_20 |-> sma_20, sma_50 |-> sma_50,
      obv_trend |-> obv_trend] @@ RangeAround(price, a) @@ change :
        price \in 1..MaxAverage, sma_20 \in Averages10, sma_50 \in Averages50,
        obv_trend \in {"up", "down"}, a \in {0, 2, 3, 7, 8}, change \in Changes7d}

LongTermInputs ==
    {[price_current |-> Z(2), sma_50 |-> sma_50] @@ week @@ day @@ atr @@ rsi :
        sma_50 \in Averages50, week \in Changes7d,
        day \in Changes24h, atr \in AtrChoices, rsi \in RsiChoices}

\* full dicts, every value well inside a band
FullInputs ==
    {RsiKeys(Z(rsi)) @@ StochKeys(Z(stoch), NaN) @@ [bb_position |-> R(bb, 20)]
          @@ [atr_pct |-> Z(atr), macd_bullish |-> macd, price_current |-> Z(price),
              sma_10 |-> Z(sma_10), sma_20 |-> Z(2), sma_50 |-> sma_50,
              price_change_24h |-> Z(6 * day), price_change_7d |-> Z(11 * week),
              obv_trend |-> obv_trend]
          @@ RangeAround(price, a) :
        rsi \in {29, 50, 71}, stoch \in {19, 81}, bb \in {1, 19}, atr \in {1, 6},
        macd \in BOOLEAN, price \in 1..MaxAverage, sma_10 \in {1, 3},
        sma_50 \in {None, Z(1), Z(3)}, day \in {-1, 1}, week \in {-1, 1},
        obv_trend \in {"up", "down"}, a \in {2, 8}}

InitScorers ==
    /\ store = <<>>
    /\ db_ok = TRUE
    /\ market_open = FALSE
    /\ call = <<>>
    /\ batch = <<>>
    /\ \E indicators \in IntradayInputs \cup ShortTermInputs \cup MediumTermInputs
                            \cup LongTermInputs \cup FullInputs :
          analysis = [indicators |-> indicators]

\* analyze_asset from the non-empty dict calculate_all_indicators returned
Recommend ==
    /\ DOMAIN analysis = {"indicators"}
    /\ analysis.indicators # <<>>
    /\ \E asset_type \in AssetTypes, is_market_hours \in BOOLEAN :
          analysis' = AnalysisWithSignals(analysis.indicators,
                                          GetIndicatorSignals(analysis.indicators),
                                          is_market_hours, asset_type)
    /\ UNCHANGED <<store, db_ok, market_open, call, batch>>

NextScorers == Recommend

SpecScorers == InitScorers /\ [][NextScorers]_vars

Recommended == "recommendations" \in DOMAIN analysis

Rec(tf) == analysis.recommendations[tf]

\* what a two-sided check adds: by if the value is below low, -by if it is
\* above high, nothing for a value in between or missing
TwoSided(key, low, high, by) ==
    IF key \notin DOMAIN Given THEN 0
    ELSE IF FLt(Given[key], low) THEN by
    ELSE IF FGt(Given[key], high) THEN -by
    ELSE 0

SignalBy(score, strong, weak) ==
    IF score >= strong THEN STRONG_BUY
    ELSE IF score >= weak /\ score < strong THEN BUY
    ELSE IF score <= -strong THEN STRONG_SELL
    ELSE IF -strong < score /\ score <= -weak THEN SELL
    ELSE NEUTRAL

\* C21: the intraday score is the sum of +2 / -2 for RSI below 30 / above
\* 70, +2 / -2 for %K below 20 / above 80 and +2 / -2 for bb_position below
\* 0.1 / above 0.9; atr_pct never changes it; the signal follows the score
\* with the thresholds 4 and 2; the score is an even integer in -6 .. 6.
C21_IntradayScore ==
    (Recommended /\ INTRADAY \in DOMAIN analysis.recommendations) =>
        /\ Rec(INTRADAY).score =
              TwoSided("rsi", Z(30), Z(70), 2) + TwoSided("stoch_k", Z(20), Z(80), 2)
                  + TwoSided("bb_position", R(1, 10), R(9, 10), 2)
        /\ Rec(INTRADAY).signal = SignalBy(Rec(INTRADAY).score, 4, 2)
        /\ Rec(INTRADAY).score \in {-6, -4, -2, 0, 2, 4, 6}

\* RSI and %K oversold against an upper band: +2 +2 -2, with the
\* volatility note among the factors
C21_Witness ==
    /\ Recommended /\ INTRADAY \in DOMAIN analysis.recommendations
    /\ Has(Given, {"rsi", "stoch_k", "bb_position", "atr_pct"})
    /\ Given.rsi = Z(29) /\ Given.stoch_k = Z(19) /\ Given.bb_position = R(19, 20)
    /\ Given.atr_pct = Z(4)
    /\ Rec(INTRADAY).score = 2
    /\ Rec(INTRADAY).signal = BUY
    /\ Len(Rec(INTRADAY).factors) = 4

MacdTerm ==
    IF "macd_bullish" \notin DOMAIN Given THEN 0
    ELSE IF Given.macd_bullish THEN 3 ELSE -3

\* +2 exactly when SMA10 > SMA20, -2 exactly when SMA10 < SMA20
CrossingTerm ==
    IF ~Has(Given, {"price_current", "sma_10", "sma_20"}) THEN 0
    ELSE IF FGt(Given.sma_10, Given.sma_20) THEN 2
    ELSE IF FLt(Given.sma_10, Given.sma_20) THEN -2
    ELSE 0

MomentumTerm ==
    IF "price_change_24h" \notin DOMAIN Given THEN 0
    ELSE IF FGt(Given.price_change_24h, Z(5)) THEN 1
    ELSE IF FLt(Given.price_change_24h, Z(-5)) THEN -1
    ELSE 0

Listed(tf, text) == \E i \in DOMAIN Rec(tf).factors : Rec(tf).factors[i] = text

\* C22: the short-term score is the sum of +3 / -3 for a bullish / bearish
\* MACD, +1 / -1 for RSI below 35 / above 65, +2 exactly when SMA10 > SMA20
\* and -2 exactly when SMA10 < SMA20, the factor 'SMA10 < SMA20' being
\* listed only when that ordering holds, and +1 / -1 for a 24h change above
\* 5% / below -5%; the signal follows the score with the thresholds 5 and 2.
C22_ShortTermScore ==
    Recommended =>
        /\ Rec(SHORT_TERM).score =
              MacdTerm + TwoSided("rsi", Z(35), Z(65), 1) + CrossingTerm + MomentumTerm
        /\ Listed(SHORT_TERM, "SMA10 < SMA20 (tendance baissiere)")
              => (Has(Given, {"sma_10", "sma_20"}) /\ FLt(Given.sma_10, Given.sma_20))
        /\ Rec(SHORT_TERM).signal = SignalBy(Rec(SHORT_TERM).score, 5, 2)

TrendTerm ==
    IF Vote("trend") = "buy" THEN 3 ELSE IF Vote("trend") = "sell" THEN -3 ELSE 0

OrderingTerm ==
    IF ~Has(Given, {"price_current", "sma_20", "sma_50"}) THEN 0
    ELSE IF Given.sma_50 = None THEN 0
    ELSE IF FGt(Given.price_current, Given.sma_20) /\ FGt(Given.sma_20, Given.sma_50)
         THEN 2
    ELSE IF FLt(Given.price_current, Given.sma_20) /\ FLt(Given.sma_20, Given.sma_50)
         THEN -2
    ELSE 0

\* tenths of the way from support to resistance; 5 when they are equal
PositionInRange ==
    IF Given.resistance = Given.support THEN R(1, 2)
    ELSE FDiv(FSub(Given.price_current, Given.support),
              FSub(Given.resistance, Given.support))

RangeTerm ==
    IF ~Has(Given, {"price_current", "support", "resistance"}) THEN 0
    ELSE IF FLt(PositionInRange, R(3, 10)) THEN 2
    ELSE IF FGt(PositionInRange, R(7, 10)) THEN -1
    ELSE 0

ObvTerm ==
    IF "obv_trend" \notin DOMAIN Given THEN 0
    ELSE IF Given.obv_trend = "up" THEN 1 ELSE -1

\* C23: the medium-term score is the sum of +3 / -3 for a trend vote of buy
\* / sell, +2 / -2 for price > SMA20 > SMA50 / price < SMA20 < SMA50, +2 for
\* a price in the lowest 30% of the range from support to resistance and -1
\* for one in the highest 30% (the position being 0.5 when they are equal),
\* +1 / -1 for a 7-day change above 10% / below -10% and +1 / -1 for an OBV
\* trend up / down; the signal follows the score with the thresholds 6 and 3.
C23_MediumTermScore ==
    Recommended =>
        /\ Rec(MEDIUM_TERM).score =
              TrendTerm + OrderingTerm + RangeTerm
                  - TwoSided("price_change_7d", Z(-10), Z(10), 1) + ObvTerm
        /\ Rec(MEDIUM_TERM).signal = SignalBy(Rec(MEDIUM_TERM).score, 6, 3)

\* trend and ordering up, the price near the resistance, a weak week and a
\* falling OBV: 3 + 2 - 1 - 1 - 1
C23_Witness ==
    /\ Recommended
    /\ Vote("trend") = "buy"
    /\ Has(Given, {"support", "resistance", "price_change_7d", "obv_trend"})
    /\ FGt(PositionInRange, R(7, 10))
    /\ Given.price_change_7d = Z(-11)
    /\ Given.obv_trend = "down"
    /\ Rec(MEDIUM_TERM).score = 2
    /\ Rec(MEDIUM_TERM).signal = NEUTRAL

\* +3 when the price is above SMA50, -3 when it is below
Sma50Term ==
    IF "sma_50" \notin DOMAIN Given THEN 0
    ELSE IF Given.sma_50 = None THEN 0
    ELSE IF FGt(Given.price_current, Given.sma_50) THEN 3
    ELSE IF FLt(Given.price_current, Given.sma_50) THEN -3
    ELSE 0

Blend ==
    FAdd(FMul(R(7, 10), Given.price_change_7d), FMul(R(3, 10), Given.price_change_24h))

BlendTerm ==
    IF ~Has(Given, {"price_change_7d", "price_change_24h"}) THEN 0
    ELSE IF FGt(Blend, Z(5)) THEN 2
    ELSE IF FLt(Blend, Z(-5)) THEN -2
    ELSE 0

VolatilityTerm ==
    IF "atr_pct" \in DOMAIN Given /\ FGt(Given.atr_pct, Z(5)) THEN -1 ELSE 0

BalanceTerm ==
    IF "rsi" \in DOMAIN Given /\ FGe(Given.rsi, Z(40)) /\ FLe(Given.rsi, Z(60))
    THEN 1 ELSE 0

\* C24: the long-term score is the sum of +3 / -3 for a price above / below
\* SMA50 (nothing without an SMA50), +2 / -2 for a blend 0.7 * change_7d +
\* 0.3 * change_24h above 5 / below -5, -1 for atr_pct above 5 and +1 for an
\* RSI from 40 to 60; the signal follows the score with the thresholds 4, 2.
C24_LongTermScore ==
    Recommended =>
        /\ Rec(LONG_TERM).score = Sma50Term + BlendTerm + VolatilityTerm + BalanceTerm
        /\ Rec(LONG_TERM).signal = SignalBy(Rec(LONG_TERM).score, 4, 2)

\* the checks a scorer ran on the dict, in source order
ChecksOf(tf) ==
    CASE tf = INTRADAY -> IntradayChecks(Given)
      [] tf = SHORT_TERM -> ShortTermChecks(Given)
      [] tf = MEDIUM_TERM -> MediumTermChecks(Given, analysis.signals)
      [] OTHER -> LongTermChecks(Given)

Fired(checks) == {i \in DOMAIN checks : checks[i].ds # 0}

\* C25: in each scorer every check that changes the score appends exactly
\* one factor, and the factors are listed in the order of the checks; so a
\* non-zero score comes with a non-empty factors list, and there are at
\* least as many factors as checks that changed the score.
C25_ScoreChangesExplained ==
    Recommended =>
        \A tf \in DOMAIN analysis.recommendations :
            /\ \A i \in Fired(ChecksOf(tf)) : Len(ChecksOf(tf)[i].fs) = 1
            /\ Rec(tf).factors = FactorsOf(ChecksOf(tf))
            /\ Rec(tf).score # 0 => Rec(tf).factors # <<>>
            /\ Len(Rec(tf).factors) >= Cardinality(Fired(ChecksOf(tf)))

\* a long-term result with one score-changing check and an annotation
C25_Witness ==
    /\ Recommended
    /\ Rec(LONG_TERM).score = 3
    /\ Cardinality(Fired(ChecksOf(LONG_TERM))) = 1
    /\ Len(Rec(LONG_TERM).factors) = 2
    /\ Rec(LONG_TERM).factors[1] = "Prix au-dessus de SMA50"

TimeframeSignals == {Rec(tf).signal : tf \in DOMAIN analysis.recommendations}

BuyFamily == {BUY, STRONG_BUY}

SellFamily == {SELL, STRONG_SELL}

\* C27: with a confidence of VeryHigh the overall signal is not neutral and
\* is of the family (buy or sell) of every timeframe signal; and when every
\* timeframe signal is of the sell family the overall signal is sell or
\* strong_sell (likewise for the buy family).
C27_VeryHighAgrees ==
    Recommended =>
        /\ analysis.overall_score.confidence = VeryHigh
              => \/ /\ analysis.overall_score.signal \in BuyFamily
                    /\ TimeframeSignals \subseteq BuyFamily
                 \/ /\ analysis.overall_score.signal \in SellFamily
                    /\ TimeframeSignals \subseteq SellFamily
        /\ TimeframeSignals \subseteq SellFamily
              => analysis.overall_score.signal \in SellFamily
        /\ TimeframeSignals \subseteq BuyFamily
              => analysis.overall_score.signal \in BuyFamily

\* four timeframes of the sell family, not all the same signal, and a
\* weighted score above -5
C27_Witness ==
    /\ Recommended
    /\ Cardinality(DOMAIN analysis.recommendations) = 4
    /\ TimeframeSignals = SellFamily
    /\ analysis.overall_score.confidence = VeryHigh
    /\ FGt(analysis.overall_score.score, Z(-5))
    /\ analysis.overall_score.signal \in SellFamily

\* C28: with the signals of get_indicator_signals on the same dict, the
\* trend factor and the ordering factor of the medium-term scorer fire
\* together and with one sign: +5 or -5 jointly, never one without the other.
C28_TrendAndOrderingTogether ==
    Recommended =>
        /\ Vote("trend") = "buy" <=> Listed(MEDIUM_TERM, "Prix > SMA20 > SMA50")
        /\ Vote("trend") = "sell" <=> Listed(MEDIUM_TERM, "Prix < SMA20 < SMA50")
        /\ Listed(MEDIUM_TERM, "Tendance haussiere confirmee")
              <=> Listed(MEDIUM_TERM, "Prix > SMA20 > SMA50")
        /\ Listed(MEDIUM_TERM, "Tendance baissiere confirmee")
              <=> Listed(MEDIUM_TERM, "Prix < SMA20 < SMA50")

\* a falling trend: both factors listed, -5 from the two, the rest +2 +1 +1
C28_Witness ==
    /\ Recommended
    /\ Vote("trend") = "sell"
    /\ Rec(MEDIUM_TERM).factors[1] = "Tendance baissiere confirmee"
    /\ Rec(MEDIUM_TERM).factors[2] = "Prix < SMA20 < SMA50"
    /\ Rec(MEDIUM_TERM).score = -1

(***************************************************************************)
(* get_price_history from the raw samples.  A sample is [at, p]: at the    *)
(* hour of its insertion counted (UTC) from the midnight of a day 0, p its *)
(* price; the samples are in insertion order.  The query compares the      *)
(* stored text of the timestamp with the text of since_date.               *)
(***************************************************************************)
HoursPerDay == 24

MaxSamples == 3

MaxOffset == 1

\* the hours around a midnight, one of them left out
SampleHours == {21, 22, 23, 24, 25, 27}

SinceHours == {22, 24}

\* DEFAULT CURRENT_TIMESTAMP: 'YYYY-MM-DD HH:MM:SS' in UTC, as the day, the
\* code point of the separator ' ' and the hour
CurrentTimestamp(at) == <<at \div HoursPerDay, 32, at % HoursPerDay>>

\* since_date.isoformat(): 'YYYY-MM-DDTHH:MM:SS.ffffff' in local time, as
\* the day, the code point of the separator 'T' and the hour
IsoFormat(local) == <<local \div HoursPerDay, 84, local % HoursPerDay>>

\* the comparison of two TEXT values in SQLite: character by character
TextGe(a, b) ==
    IF a[1] # b[1] THEN a[1] > b[1]
    ELSE IF a[2] # b[2] THEN a[2] > b[2]
    ELSE a[3] >= b[3]

\* WHERE timestamp >= ?: the rows of the samples, t >= 0 for those selected
QueryRows(samples, since_date) ==
    [i \in DOMAIN samples |->
        [t |-> IF TextGe(CurrentTimestamp(samples[i].at), since_date)
               THEN samples[i].at ELSE -1,
         p |-> samples[i].p]]

SampleSeqs ==
    {samples \in UNION {[1..n -> [at : SampleHours, p : 1..MaxPrice]] : n \in 0..MaxSamples} :
        \A i \in 1..(Len(samples) - 1) : samples[i].at <= samples[i + 1].at}

InitHistory ==
    /\ store \in SampleSeqs
    /\ db_ok = TRUE
    /\ market_open = FALSE
    /\ call = <<>>
    /\ analysis = <<>>
    /\ batch = <<>>

\* get_price_history at the instant since + days, the local clock being
\* offset hours ahead of UTC
ReadHistory ==
    /\ call = <<>>
    /\ \E since \in SinceHours, offset \in 0..MaxOffset :
          /\ call' = [since |-> since, offset |-> offset]
          /\ analysis' =
                [history |-> GetPriceHistory(QueryRows(store, IsoFormat(since + offset)),
                                             db_ok)]
    /\ UNCHANGED <<store, db_ok, market_open, batch>>

NextHistory == ReadHistory

SpecHistory == InitHistory /\ [][NextHistory]_vars

\* the samples of the lookback window: those not older than since_date
InLookback == {i \in DOMAIN store : store[i].at >= call.since}

FirstBucket == store[CHOOSE i \in InLookback : \A j \in InLookback : i <= j].at

LastBucket == store[CHOOSE i \in InLookback : \A j \in InLookback : j <= i].at

\* the last sample of the window at or before a bucket
LastUpTo(bucket) ==
    store[CHOOSE i \in InLookback :
              /\ store[i].at <= bucket
              /\ \A j \in InLookback : store[j].at <= bucket => j <= i]

\* C26: with samples in the lookback window the series has one value for
\* each hour from the first sample's to the last sample's, the price of the
\* last sample of that hour or, for an hour without sample, that of the
\* hour before; with no sample in the window the series is empty.
C26_HourlyLastAndFill ==
    call # <<>> =>
        IF InLookback = {} THEN analysis.history = <<>>
        ELSE /\ Len(analysis.history) = LastBucket - FirstBucket + 1
             /\ \A b \in 1..Len(analysis.history) :
                   analysis.history[b] = LastUpTo(FirstBucket + b - 1).p

(***************************************************************************)
(* The scheduler and the monitoring cycle.  The clock counts the minutes   *)
(* of Paris time from the midnight of a working day that is no holiday.    *)
(*   call      the scheduler: the clock and the jobs of schedule            *)
(*   store     price_history: the last price stored for a symbol (0: none)  *)
(*   db_ok     whether the database could be written in the last cycle     *)
(*   analysis  the FinanceMonitor of the last cycle, as the cycle left it   *)
(*   batch     what the last cycle sent and recorded, and the count of the  *)
(*             daily reports sent on the day of the clock                   *)
(***************************************************************************)
MaxDays == 1

MaxQuote == 3

StartMinutes == {8 * 60 + 50, 9 * 60 + 30, 17 * 60 + 20}

\* CONFIG: one stock and one crypto, with the same thresholds
Portfolio == AllSymbols(1, 1)

Thresholds == [high |-> 3, low |-> 1, change_percent |-> 10]

DayOf(now) == now \div (HoursPerDay * 60)

HourOf(now) == (now % (HoursPerDay * 60)) \div 60

MinuteOf(now) == now % 60

\* paris_time.date(), a value that None never equals
DateOf(now) == [k |-> "date", n |-> DayOf(now), d |-> 1]

\* is_euronext_open(): 9h00 - 17h30
IsEuronextOpen(now) ==
    /\ 9 * 60 <= now % (HoursPerDay * 60)
    /\ now % (HoursPerDay * 60) <= 17 * 60 + 30

\* smart_schedule: schedule.clear(), the monitoring job every 20 or 60
\* minutes, smart_schedule itself again after 4 hours
SmartSchedule(now) ==
    [now |-> now,
     started |-> TRUE,
     interval |-> IF IsEuronextOpen(now) THEN 20 ELSE 60,
     cycle_at |-> now + (IF IsEuronextOpen(now) THEN 20 ELSE 60),
     adapt_at |-> now + 4 * 60]

\* AlertChecker.check_price_alerts: the alerts of one price, in the order
\* they are appended
Alert(type, severity, symbol, current_price, previous_price) ==
    <<[type |-> type, severity |-> severity, symbol |-> symbol,
       current_price |-> current_price, previous_price |-> previous_price]>>

SignificantMove(current_price, previous_price) ==
    IF previous_price > 0
    THEN Abs(current_price - previous_price) * 100 >= Thresholds.change_percent * previous_price
    ELSE 0 >= Thresholds.change_percent

CheckPriceAlerts(symbol, current_price, previous_price) ==
    (IF current_price >= Thresholds.high
     THEN Alert("HIGH_THRESHOLD", "high", symbol, current_price, previous_price)
     ELSE <<>>)
    \o (IF current_price <= Thresholds.low
        THEN Alert("LOW_THRESHOLD", "high", symbol, current_price, previous_price)
        ELSE <<>>)
    \o (IF SignificantMove(current_price, previous_price)
        THEN Alert("SIGNIFICANT_MOVE", "medium", symbol, current_price, previous_price)
        ELSE <<>>)

\* AlertAggregator.should_send_notification
ShouldSendNotificationAny(alerts) == alerts # <<>>

ShouldSendNotification(alerts) ==
    \E i \in DOMAIN alerts : alerts[i].severity = "high"

\* FinanceMonitor.__init__
NewMonitor ==
    [last_report_sent |-> [morning |-> None, evening |-> None], alerts |-> <<>>]

InWindow930(now, hour) ==
    /\ hour <= HourOf(now) /\ HourOf(now) <= hour + 1
    /\ \/ HourOf(now) = hour /\ MinuteOf(now) >= 30
       \/ HourOf(now) = hour + 1 /\ MinuteOf(now) <= 30

\* _check_daily_reports: whether the report of a type is sent now
ReportDue(monitor, now, report_type) ==
    /\ InWindow930(now, IF report_type = "morning" THEN 9 ELSE 17)
    /\ monitor.last_report_sent[report_type] # DateOf(now)

LastReportSent(monitor, now) ==
    [report_type \in {"morning", "evening"} |->
        IF ReportDue(monitor, now, report_type) THEN DateOf(now)
        ELSE monitor.last_report_sent[report_type]]

\* whether a pass handles the symbol: the stocks while Euronext is open, a
\* symbol whose price was fetched (a quote of 0: no data)
Handled(asset, now, quotes) ==
    /\ asset.asset_type = "stock" => IsEuronextOpen(now)
    /\ quotes[asset.symbol] > 0

\* _store_price: a failure is logged and the price is not stored
StorePrice(prices, now, quotes, healthy) ==
    [symbol \in DOMAIN prices |->
        IF healthy /\ \E i \in DOMAIN Portfolio :
                         Portfolio[i].symbol = symbol /\ Handled(Portfolio[i], now, quotes)
        THEN quotes[symbol] ELSE prices[symbol]]

\* _get_previous_price: the price stored before the one just stored, 0.0
\* without one or on a failure
GetPreviousPrice(prices, symbol, healthy) ==
    IF healthy THEN prices[symbol] ELSE 0

\* _monitor_stocks, then _monitor_crypto: the alerts added to the aggregator
RECURSIVE MonitorPasses(_, _, _, _, _)
MonitorPasses(i, prices, now, quotes, healthy) ==
    IF i > Len(Portfolio) THEN <<>>
    ELSE (IF Handled(Portfolio[i], now, quotes)
          THEN CheckPriceAlerts(Portfolio[i].symbol, quotes[Portfolio[i].symbol],
                                GetPreviousPrice(prices, Portfolio[i].symbol, healthy))
          ELSE <<>>)
         \o MonitorPasses(i + 1, prices, now, quotes, healthy)

\* _send_alerts: the email, then Slack, then _record_alerts_sent, whose
\* failure is logged, then alert_aggregator.clear()
SendAlerts(alerts, healthy) ==
    [notifications |-> <<[channel |-> "email", alerts |-> alerts],
                         [channel |-> "slack", alerts |-> alerts]>>,
     alerts_sent |-> IF healthy THEN alerts ELSE <<>>,
     alerts |-> <<>>]

NoAlertsSent(alerts) ==
    [notifications |-> <<>>, alerts_sent |-> <<>>, alerts |-> alerts]

\* monitor_assets: what the cycle sends and records for the alerts held
\* after the two passes
Notify(alerts, healthy) ==
    IF ShouldSendNotification(alerts) THEN SendAlerts(alerts, healthy)
    ELSE NoAlertsSent(alerts)

\* the daily reports sent on the day of the clock, the cycle at now included
ReportsToday(log, monitor, now) ==
    [report_type \in {"morning", "evening"} |->
        (IF log.today = DayOf(now) THEN log.reports[report_type] ELSE 0)
        + (IF ReportDue(monitor, now, report_type) THEN 1 ELSE 0)]

CycleLog(log, monitor, now, held, sent) ==
    [today |-> DayOf(now),
     reports |-> ReportsToday(log, monitor, now),
     held |-> held,
     notifications |-> sent.notifications,
     alerts_sent |-> sent.alerts_sent]

\* run_monitoring_cycle at now: a new FinanceMonitor, then monitor_assets
RunMonitoringCycle(now, quotes, healthy) ==
    /\ store' = StorePrice(store, now, quotes, healthy)
    /\ db_ok' = healthy
    /\ market_open' = IsEuronextOpen(now)
    /\ analysis' =
          [last_report_sent |-> LastReportSent(NewMonitor, now),
           alerts |-> Notify(MonitorPasses(1, store, now, quotes, healthy), healthy).alerts]
    /\ batch' = CycleLog(batch, NewMonitor, now,
                         MonitorPasses(1, store, now, quotes, healthy),
                         Notify(MonitorPasses(1, store, now, quotes, healthy), healthy))

Quotes == [{Portfolio[i].symbol : i \in DOMAIN Portfolio} -> 0..MaxQuote]

InitMonitor ==
    /\ store = [symbol \in {Portfolio[i].symbol : i \in DOMAIN Portfolio} |-> 0]
    /\ db_ok = TRUE
    /\ \E now \in StartMinutes :
          /\ call = [now |-> now, started |-> FALSE, interval |-> 0,
                     cycle_at |-> now, adapt_at |-> now]
          /\ market_open = IsEuronextOpen(now)
          /\ batch = [today |-> DayOf(now),
                      reports |-> [report_type \in {"morning", "evening"} |-> 0],
                      held |-> <<>>, notifications |-> <<>>, alerts_sent |-> <<>>]
    /\ analysis = NewMonitor

\* schedule_tasks in the continuous mode: smart_schedule(), then a cycle at
\* once
ScheduleTasks ==
    /\ ~call.started
    /\ call' = SmartSchedule(call.now)
    /\ \E quotes \in Quotes, healthy \in BOOLEAN :
          RunMonitoringCycle(call.now, quotes, healthy)

\* schedule.run_pending() when the monitoring job is due: the cycle, and
\* smart_schedule when it is due at the same minute
RunPending ==
    /\ call.started
    /\ call.cycle_at < MaxDays * HoursPerDay * 60
    /\ call' = IF call.adapt_at <= call.cycle_at THEN SmartSchedule(call.cycle_at)
               ELSE [call EXCEPT !.now = call.cycle_at,
                                 !.cycle_at = call.cycle_at + call.interval]
    /\ \E quotes \in Quotes, healthy \in BOOLEAN :
          RunMonitoringCycle(call.cycle_at, quotes, healthy)

NextMonitor == ScheduleTasks \/ RunPending

SpecMonitor == InitMonitor /\ [][NextMonitor]_vars

\* C29: the morning report and the evening report are each sent at most
\* once on a Paris calendar day, however many cycles fall inside the window
\* of a report.
C29_OneReportPerDay ==
    call.started =>
        /\ batch.reports["morning"] <= 1
        /\ batch.reports["evening"] <= 1

HighSeverity(alert) == alert.type \in {"HIGH_THRESHOLD", "LOW_THRESHOLD"}

\* the notification is sent exactly when an alert held after the two passes
\* is of high severity: the email first, then Slack, each once, for the
\* alerts held; the aggregator of the monitor is empty after it
SentIffHighSeverity ==
    /\ batch.notifications # <<>> <=> \E i \in DOMAIN batch.held : HighSeverity(batch.held[i])
    /\ batch.notifications # <<>> =>
          /\ batch.notifications = <<[channel |-> "email", alerts |-> batch.held],
                                     [channel |-> "slack", alerts |-> batch.held]>>
          /\ analysis.alerts = <<>>
    /\ batch.notifications = <<>> =>
          /\ batch.alerts_sent = <<>>
          /\ analysis.alerts = batch.held

C30_WitnessMovesOnly ==
    /\ call.started
    /\ batch.held # <<>>
    /\ \A i \in DOMAIN batch.held : batch.held[i].type = "SIGNIFICANT_MOVE"
    /\ batch.notifications = <<>>

====
